---- MODULE Spec2Model ----
(***************************************************************************)
(* Risk scoring core of the gas-turbine supply-chain dashboard             *)
(* (client/lib/risk.ts): min-max normalizer, weighted risk score, tier     *)
(* classification and action heuristics.                                   *)
(*                                                                         *)
(* The TypeScript type `number` is an IEEE-754 binary64 value.  The model  *)
(* keeps that arithmetic: every +, -, *, / of the source is the correctly  *)
(* rounded (round-half-to-even, 53 significant bits) operation, carried    *)
(* out on arbitrary-size naturals held as sequences of 15-bit limbs.       *)
(***************************************************************************)
EXTENDS Integers, Sequences, FiniteSets, TLC

(***************************************************************************)
(* Naturals of arbitrary size: little-endian sequences of limbs, base      *)
(* 2^15, no high zero limb; <<>> is zero.  With 15-bit limbs a product of  *)
(* two limbs plus a carry stays below 2^31.                                *)
(***************************************************************************)
LimbBits == 3 * 5
Base == 2 ^ LimbBits

Pow2(k) == 2 ^ k

RECURSIVE BNorm(_)
BNorm(a) ==
  IF a = <<>> THEN <<>>
  ELSE IF a[Len(a)] = 0 THEN BNorm(SubSeq(a, 1, Len(a) - 1)) ELSE a

RECURSIVE BFromInt(_)
BFromInt(n) == IF n = 0 THEN <<>> ELSE <<n % Base>> \o BFromInt(n \div Base)

RECURSIVE BToInt(_)
BToInt(a) == IF a = <<>> THEN 0 ELSE a[1] + Base * BToInt(Tail(a))

BHead(a) == IF a = <<>> THEN 0 ELSE a[1]
BTail(a) == IF a = <<>> THEN <<>> ELSE Tail(a)

RECURSIVE BAddC(_, _, _)
BAddC(a, b, c) ==
  IF a = <<>> /\ b = <<>> THEN (IF c = 0 THEN <<>> ELSE <<c>>)
  ELSE LET x == BHead(a) + BHead(b) + c
       IN <<x % Base>> \o BAddC(BTail(a), BTail(b), x \div Base)

BAdd(a, b) == BAddC(a, b, 0)

\* a - b for a >= b
RECURSIVE BSubC(_, _, _)
BSubC(a, b, c) ==
  IF a = <<>> THEN <<>>
  ELSE LET x == a[1] - BHead(b) - c
       IN <<IF x < 0 THEN x + Base ELSE x>> \o
          BSubC(Tail(a), BTail(b), IF x < 0 THEN 1 ELSE 0)

BSub(a, b) == BNorm(BSubC(a, b, 0))

RECURSIVE BCmpAt(_, _, _)
BCmpAt(a, b, i) ==
  IF i = 0 THEN 0
  ELSE IF a[i] < b[i] THEN -1
  ELSE IF a[i] > b[i] THEN 1
  ELSE BCmpAt(a, b, i - 1)

\* -1, 0, 1 as a < b, a = b, a > b
BCmp(a, b) ==
  IF Len(a) < Len(b) THEN -1
  ELSE IF Len(a) > Len(b) THEN 1
  ELSE BCmpAt(a, b, Len(a))

\* a * k + c for one limb k
RECURSIVE BMulSmall(_, _, _)
BMulSmall(a, k, c) ==
  IF a = <<>> THEN (IF c = 0 THEN <<>> ELSE <<c>>)
  ELSE LET x == a[1] * k + c
       IN <<x % Base>> \o BMulSmall(Tail(a), k, x \div Base)

RECURSIVE BMulRec(_, _)
BMulRec(a, b) ==
  IF b = <<>> THEN <<>>
  ELSE BAdd(BMulSmall(a, b[1], 0), <<0>> \o BMulRec(a, Tail(b)))

BMul(a, b) == IF a = <<>> \/ b = <<>> THEN <<>> ELSE BNorm(BMulRec(a, b))

\* quotient and remainder of a by one limb d > 0
RECURSIVE BDivSmall(_, _)
BDivSmall(a, d) ==
  IF a = <<>> THEN [q |-> <<>>, r |-> 0]
  ELSE LET hi == BDivSmall(Tail(a), d)
           x == hi.r * Base + a[1]
       IN [q |-> <<x \div d>> \o hi.q, r |-> x % d]

Zeros(n) == [i \in 1..n |-> 0]

BShl(a, k) ==
  IF a = <<>> THEN <<>>
  ELSE Zeros(k \div LimbBits) \o BMulSmall(a, Pow2(k % LimbBits), 0)

\* floor(a / 2^k)
BShr(a, k) ==
  LET q == k \div LimbBits
  IN IF q >= Len(a) THEN <<>>
     ELSE BNorm(BDivSmall(SubSeq(a, q + 1, Len(a)), Pow2(k % LimbBits)).q)

RECURSIVE IntBitLen(_)
IntBitLen(n) == IF n = 0 THEN 0 ELSE 1 + IntBitLen(n \div 2)

BBitLen(a) ==
  IF a = <<>> THEN 0 ELSE LimbBits * (Len(a) - 1) + IntBitLen(a[Len(a)])

\* bit i (0 = lowest) of a
BBit(a, i) ==
  LET q == i \div LimbBits
  IN IF q >= Len(a) THEN 0 ELSE (a[q + 1] \div Pow2(i % LimbBits)) % 2

\* some bit below bit i of a is set
BLowBits(a, i) ==
  LET q == i \div LimbBits
  IN \/ \E j \in 1..Len(a) : j <= q /\ a[j] # 0
     \/ q < Len(a) /\ a[q + 1] % Pow2(i % LimbBits) # 0

RECURSIVE IntTz(_)
IntTz(n) == IF n % 2 = 1 THEN 0 ELSE 1 + IntTz(n \div 2)

\* number of trailing zero bits of a # 0
RECURSIVE BTz(_)
BTz(a) == IF a[1] = 0 THEN LimbBits + BTz(Tail(a)) ELSE IntTz(a[1])

(***************************************************************************)
(* The TypeScript `number`: an IEEE-754 double.  A finite value is          *)
(* (-1)^neg * m * 2^e with m odd (or m = 0, e = 0); k tells a finite value  *)
(* from an infinity and from NaN.  Zero carries no sign, and the exponent   *)
(* is unbounded: no value of the model comes near the subnormal or the      *)
(* overflow range of a double.                                              *)
(***************************************************************************)
Precision == 53

FZero == [k |-> "fin", neg |-> FALSE, m |-> <<>>, e |-> 0]
NaN == [k |-> "nan", neg |-> FALSE, m |-> <<>>, e |-> 0]
Infinity(neg) == [k |-> "inf", neg |-> neg, m |-> <<>>, e |-> 0]

\* the exact value (-1)^neg * m * 2^e in canonical form
FCanon(neg, m, e) ==
  IF m = <<>> THEN FZero
  ELSE LET tz == BTz(m)
       IN [k |-> "fin", neg |-> neg, m |-> BShr(m, tz), e |-> e + tz]

\* the double nearest to (-1)^neg * m * 2^e, ties to the even mantissa
FRound(neg, m, e) ==
  LET n == BBitLen(m)
  IN IF n <= Precision THEN FCanon(neg, m, e)
     ELSE LET d == n - Precision
              q == BShr(m, d)
              up == BBit(m, d - 1) = 1 /\ (BLowBits(m, d - 1) \/ q[1] % 2 = 1)
          IN FCanon(neg, IF up THEN BAdd(q, <<1>>) ELSE q, e + d)

FromInt(n) == FCanon(n < 0, BFromInt(IF n < 0 THEN -n ELSE n), 0)

FNeg(a) == IF a.k = "nan" \/ (a.k = "fin" /\ a.m = <<>>) THEN a ELSE [a EXCEPT !.neg = ~a.neg]

Min2(x, y) == IF x < y THEN x ELSE y
Max2(x, y) == IF x > y THEN x ELSE y

\* a + b, a and b finite
FAddFin(a, b) ==
  IF a.m = <<>> THEN b
  ELSE IF b.m = <<>> THEN a
  ELSE LET e == Min2(a.e, b.e)
           ma == BShl(a.m, a.e - e)
           mb == BShl(b.m, b.e - e)
           c == BCmp(ma, mb)
       IN IF a.neg = b.neg THEN FRound(a.neg, BAdd(ma, mb), e)
          ELSE IF c = 0 THEN FZero
          ELSE IF c > 0 THEN FRound(a.neg, BSub(ma, mb), e)
          ELSE FRound(b.neg, BSub(mb, ma), e)

FAdd(a, b) ==
  IF a.k = "nan" \/ b.k = "nan" THEN NaN
  ELSE IF a.k = "inf" /\ b.k = "inf" THEN (IF a.neg = b.neg THEN a ELSE NaN)
  ELSE IF a.k = "inf" THEN a
  ELSE IF b.k = "inf" THEN b
  ELSE FAddFin(a, b)

FSub(a, b) == FAdd(a, FNeg(b))

FMul(a, b) ==
  IF a.k = "nan" \/ b.k = "nan" THEN NaN
  ELSE IF a.k = "inf" \/ b.k = "inf"
    THEN (IF (a.k = "fin" /\ a.m = <<>>) \/ (b.k = "fin" /\ b.m = <<>>)
          THEN NaN ELSE Infinity(a.neg # b.neg))
  ELSE FRound(a.neg # b.neg, BMul(a.m, b.m), a.e + b.e)

\* the limb of weight Base^(i-1), 0 beyond the length
Limb(a, i) == IF i <= Len(a) THEN a[i] ELSE 0

\* the quotient limb of rem by v, for rem < v * Base and the top limb of v
\* at least Base / 2: the estimate from the leading limbs is at most two
\* above the quotient
QuotientLimb(rem, v) ==
  LET n == Len(v)
      qhat == Min2(Base - 1, (Limb(rem, n + 1) * Base + Limb(rem, n)) \div v[n])
  IN IF BCmp(BNorm(BMulSmall(v, qhat, 0)), rem) <= 0 THEN qhat
     ELSE IF BCmp(BNorm(BMulSmall(v, qhat - 1, 0)), rem) <= 0 THEN qhat - 1
     ELSE qhat - 2

\* quotient and remainder of a by v, the top limb of v at least Base / 2
RECURSIVE BDivLong(_, _)
BDivLong(a, v) ==
  IF Len(a) < Len(v) THEN [q |-> Zeros(Len(a)), r |-> BNorm(a)]
  ELSE LET hi == BDivLong(Tail(a), v)
           rem == BNorm(<<a[1]>> \o hi.r)
           d == QuotientLimb(rem, v)
       IN [q |-> <<d>> \o hi.q, r |-> BSub(rem, BNorm(BMulSmall(v, d, 0)))]

\* a / b, a and b finite and b # 0.  The quotient is taken to at least
\* Precision + 2 bits and an inexact remainder is kept as one sticky bit.
\* Every divisor of the scorer is an integer below 2^15 times a power of two
\* (a lead-time range, or the power of ten of a literal), so its odd part is
\* one limb; no other divisor is given a value here.
FDivFin(a, b) ==
  CASE Len(b.m) = 1 ->
    LET k == Max2(0, BBitLen(b.m) + Precision + 2 - BBitLen(a.m))
        s == BDivSmall(BShl(a.m, k), b.m[1])
        q == BNorm(s.q)
    IN IF s.r = 0 THEN FRound(a.neg # b.neg, q, a.e - b.e - k)
       ELSE FRound(a.neg # b.neg, BAdd(BShl(q, 1), <<1>>), a.e - b.e - k - 1)

FDiv(a, b) ==
  IF a.k = "nan" \/ b.k = "nan" THEN NaN
  ELSE IF a.k = "inf" THEN (IF b.k = "inf" THEN NaN ELSE Infinity(a.neg # b.neg))
  ELSE IF b.k = "inf" THEN FZero
  ELSE IF b.m = <<>> THEN (IF a.m = <<>> THEN NaN ELSE Infinity(a.neg))
  ELSE IF a.m = <<>> THEN FZero
  ELSE FDivFin(a, b)

\* a / b, a and b finite and b # 0, for a divisor of any length (a sum of
\* weights), by long division; the quotient and the sticky bit as in FDivFin
FDivLong(a, b) ==
  LET k == Max2(0, BBitLen(b.m) + Precision + 2 - BBitLen(a.m))
      sh == LimbBits - IntBitLen(b.m[Len(b.m)])
      s == BDivLong(BShl(a.m, k + sh), BShl(b.m, sh))
      q == BNorm(s.q)
  IN IF s.r = <<>> THEN FRound(a.neg # b.neg, q, a.e - b.e - k)
     ELSE FRound(a.neg # b.neg, BAdd(BShl(q, 1), <<1>>), a.e - b.e - k - 1)

\* a / b where b may be any double
FQuot(a, b) ==
  IF a.k = "fin" /\ b.k = "fin" /\ a.m # <<>> /\ Len(b.m) > 1
  THEN FDivLong(a, b)
  ELSE FDiv(a, b)

\* a < b, a <= b, a >= b as the source's <, <=, >= on numbers (false on NaN)
FLt(a, b) ==
  LET d == FSub(a, b)
  IN d.k # "nan" /\ d.neg /\ (d.k = "inf" \/ d.m # <<>>)

FLe(a, b) == a.k # "nan" /\ b.k # "nan" /\ ~FLt(b, a)
FGe(a, b) == FLe(b, a)

\* Math.max(a, b), Math.min(a, b)
MathMax(a, b) ==
  IF a.k = "nan" \/ b.k = "nan" THEN NaN ELSE IF FLt(a, b) THEN b ELSE a

MathMin(a, b) ==
  IF a.k = "nan" \/ b.k = "nan" THEN NaN ELSE IF FLt(b, a) THEN b ELSE a

\* Math.max(...values), Math.min(...values): -Infinity, +Infinity of nothing
RECURSIVE MathMaxOf(_)
MathMaxOf(values) ==
  IF values = <<>> THEN Infinity(TRUE)
  ELSE MathMax(values[1], MathMaxOf(Tail(values)))

RECURSIVE MathMinOf(_)
MathMinOf(values) ==
  IF values = <<>> THEN Infinity(FALSE)
  ELSE MathMin(values[1], MathMinOf(Tail(values)))

\* Math.round(x): the nearest integer, a half going towards +Infinity
MathRound(x) ==
  IF x.k # "fin" \/ x.e >= 0 THEN x
  ELSE LET d == 0 - x.e
           q == BShr(x.m, d)
           g == BBit(x.m, d - 1) = 1
           s == BLowBits(x.m, d - 1)
           up == IF x.neg THEN g /\ s ELSE g
       IN FCanon(x.neg, IF up THEN BAdd(q, <<1>>) ELSE q, 0)

\* a number literal n/d of the source or of a fixture, as the double it parses to
Dec(n, d) == FDiv(FromInt(n), FromInt(d))

\* the integer an integral double holds
FIsInt(x) == x.k = "fin" /\ x.e >= 0
FToInt(x) == (IF x.neg THEN -1 ELSE 1) * BToInt(BShl(x.m, x.e))

(***************************************************************************)
(* client/lib/risk.ts                                                      *)
(***************************************************************************)
F0 == FZero
F1 == FromInt(1)
F10 == FromInt(10)
F34 == FromInt(34)
F59 == FromInt(59)
F60 == FromInt(60)
F74 == FromInt(74)
F100 == FromInt(100)

\* the number literals of risk.ts, each the double it parses to
W_robustness == Dec(28, 100)
W_complexity == Dec(20, 100)
W_sourcing == Dec(18, 100)
W_geographic == Dec(14, 100)
W_lead_time == Dec(12, 100)
W_criticality == Dec(8, 100)
F30 == FromInt(30)
F40 == FromInt(40)
F50 == FromInt(50)
F70 == FromInt(70)
F80 == FromInt(80)
F90 == FromInt(90)
F0_7 == Dec(7, 10)
F0_4 == Dec(4, 10)

\* An EntityMetrics record as JSON.parse hands it over.  A fixture record
\* holds the scores, the lead time and the vendor count as integer literals
\* and the two fractions as decimal literals in hundredths.
EntityMetrics(rec) ==
  [ id |-> rec.id,
    complexity_score |-> FromInt(rec.complexity_score),
    robustness_score |-> FromInt(rec.robustness_score),
    lead_time_days |-> FromInt(rec.lead_time_days),
    single_source_flag |-> rec.single_source_flag,
    alt_vendor_count |-> FromInt(rec.alt_vendor_count),
    geographic_concentration_index |-> Dec(rec.geographic_concentration_index, 100),
    spend_share |-> Dec(rec.spend_share, 100),
    criticality_score |-> FromInt(rec.criticality_score) ]

\* faulty variant: the range taken as max - min, without the guard Math.max(1, ...)
createMinMaxNormalizer_noGuard(values) ==
  LET min == MathMinOf(values)
      max == MathMaxOf(values)
  IN [min |-> min, range |-> FSub(max, min)]

\* createMinMaxNormalizer(values): the closure it returns, as the {min, range}
\* it closes over
createMinMaxNormalizer(values) ==
  LET min == MathMinOf(values)
      max == MathMaxOf(values)
      range == MathMax(F1, FSub(max, min))
  IN [min |-> min, range |-> range]

\* faulty variant: the fraction of the range returned without the scaling to 0-100
Normalizer_noScale(nz, v) == FDiv(FSub(v, nz.min), nz.range)

\* the closure applied: (v) => ((v - min) / range) * 100
Normalizer(nz, v) == FMul(FDiv(FSub(v, nz.min), nz.range), F100)

\* faulty variant: robustness weighted as it is, not inverted to 100 - robustness
WeightedSum_rawRobustness(m, normalized_lead_time) ==
  FAdd(FAdd(FAdd(FAdd(FAdd(
    FMul(W_robustness, m.robustness_score),
    FMul(W_complexity, m.complexity_score)),
    FMul(W_sourcing, IF m.single_source_flag THEN F100
                     ELSE MathMax(F0, FSub(F60, FMul(F10, m.alt_vendor_count))))),
    FMul(W_geographic, FMul(m.geographic_concentration_index, F100))),
    FMul(W_lead_time, normalized_lead_time)),
    FMul(W_criticality, m.criticality_score))

\* faulty variant: the sourcing term ignores single_source_flag
WeightedSum_noSingleSource(m, normalized_lead_time) ==
  FAdd(FAdd(FAdd(FAdd(FAdd(
    FMul(W_robustness, FSub(F100, m.robustness_score)),
    FMul(W_complexity, m.complexity_score)),
    FMul(W_sourcing, MathMax(F0, FSub(F60, FMul(F10, m.alt_vendor_count))))),
    FMul(W_geographic, FMul(m.geographic_concentration_index, F100))),
    FMul(W_lead_time, normalized_lead_time)),
    FMul(W_criticality, m.criticality_score))

\* the weighted sum of computeRiskScore, before it is clamped and rounded
WeightedSum(m, normalized_lead_time) ==
  FAdd(FAdd(FAdd(FAdd(FAdd(
    FMul(W_robustness, FSub(F100, m.robustness_score)),
    FMul(W_complexity, m.complexity_score)),
    FMul(W_sourcing, IF m.single_source_flag THEN F100
                       ELSE MathMax(F0, FSub(F60, FMul(F10, m.alt_vendor_count))))),
    FMul(W_geographic, FMul(m.geographic_concentration_index, F100))),
    FMul(W_lead_time, normalized_lead_time)),
    FMul(W_criticality, m.criticality_score))

\* faulty variant: the sum rounded without being clamped to [0,100]
computeRiskScore_noClamp(m, normalizeLeadTime) ==
  MathRound(WeightedSum(m, FMul(FDiv(FSub(m.lead_time_days, normalizeLeadTime.min),
                                     normalizeLeadTime.range), F100)))

computeRiskScore(m, normalizeLeadTime) ==
  LET normalized_lead_time == Normalizer(normalizeLeadTime, m.lead_time_days)
      risk_score == WeightedSum(m, normalized_lead_time)
  IN MathRound(MathMin(F100, MathMax(F0, risk_score)))

\* faulty variant: the band edges compared with < instead of <=
riskTier_strict(score) ==
  IF FLt(score, F34) THEN "Low"
  ELSE IF FLt(score, F59) THEN "Moderate"
  ELSE IF FLt(score, F74) THEN "High"
  ELSE "Critical"

riskTier(score) ==
  IF FLe(score, F34) THEN "Low"
  ELSE IF FLe(score, F59) THEN "Moderate"
  ELSE IF FLe(score, F74) THEN "High"
  ELSE "Critical"

\* faulty variant: the concentration index compared as a percentage (>= 70)
actionHeuristics_percentGeo(m, risk_score) ==
  (IF m.single_source_flag /\ FGe(risk_score, F60)
     THEN <<"Diversify Vendor Options">> ELSE <<>>) \o
  (IF FGe(m.complexity_score, F70) /\ FLe(m.robustness_score, F40)
     THEN <<"Strategic Redesign Feasibility Study">> ELSE <<>>) \o
  (IF FGe(m.geographic_concentration_index, F70)
     THEN <<"Regional Rebalancing Initiative">> ELSE <<>>) \o
  (IF FGe(m.lead_time_days, F90) /\ FGe(risk_score, F50)
     THEN <<"Safety Stock Buffer Review">> ELSE <<>>) \o
  (IF m.alt_vendor_count = F0 /\ FGe(m.criticality_score, F70)
     THEN <<"Qualify Alternate Vendors">> ELSE <<>>) \o
  (IF FGe(m.spend_share, F0_4) /\ FGe(risk_score, F50)
     THEN <<"Negotiate Dual-Sourcing Contracts">> ELSE <<>>) \o
  (IF FLe(m.robustness_score, F30)
     THEN <<"Supplier Development Program">> ELSE <<>>) \o
  (IF FGe(m.complexity_score, F80)
     THEN <<"Design Simplification Assessment">> ELSE <<>>)

\* faulty variant: the risk thresholds compared with > instead of >=
actionHeuristics_strictRisk(m, risk_score) ==
  (IF m.single_source_flag /\ FLt(F60, risk_score)
     THEN <<"Diversify Vendor Options">> ELSE <<>>) \o
  (IF FGe(m.complexity_score, F70) /\ FLe(m.robustness_score, F40)
     THEN <<"Strategic Redesign Feasibility Study">> ELSE <<>>) \o
  (IF FGe(m.geographic_concentration_index, F0_7)
     THEN <<"Regional Rebalancing Initiative">> ELSE <<>>) \o
  (IF FGe(m.lead_time_days, F90) /\ FLt(F50, risk_score)
     THEN <<"Safety Stock Buffer Review">> ELSE <<>>) \o
  (IF m.alt_vendor_count = F0 /\ FGe(m.criticality_score, F70)
     THEN <<"Qualify Alternate Vendors">> ELSE <<>>) \o
  (IF FGe(m.spend_share, F0_4) /\ FLt(F50, risk_score)
     THEN <<"Negotiate Dual-Sourcing Contracts">> ELSE <<>>) \o
  (IF FLe(m.robustness_score, F30)
     THEN <<"Supplier Development Program">> ELSE <<>>) \o
  (IF FGe(m.complexity_score, F80)
     THEN <<"Design Simplification Assessment">> ELSE <<>>)

\* faulty variant: the supplier-development rule evaluated first
actionHeuristics_reordered(m, risk_score) ==
  (IF FLe(m.robustness_score, F30)
     THEN <<"Supplier Development Program">> ELSE <<>>) \o
  (IF m.single_source_flag /\ FGe(risk_score, F60)
     THEN <<"Diversify Vendor Options">> ELSE <<>>) \o
  (IF FGe(m.complexity_score, F70) /\ FLe(m.robustness_score, F40)
     THEN <<"Strategic Redesign Feasibility Study">> ELSE <<>>) \o
  (IF FGe(m.geographic_concentration_index, F0_7)
     THEN <<"Regional Rebalancing Initiative">> ELSE <<>>) \o
  (IF FGe(m.lead_time_days, F90) /\ FGe(risk_score, F50)
     THEN <<"Safety Stock Buffer Review">> ELSE <<>>) \o
  (IF m.alt_vendor_count = F0 /\ FGe(m.criticality_score, F70)
     THEN <<"Qualify Alternate Vendors">> ELSE <<>>) \o
  (IF FGe(m.spend_share, F0_4) /\ FGe(risk_score, F50)
     THEN <<"Negotiate Dual-Sourcing Contracts">> ELSE <<>>) \o
  (IF FGe(m.complexity_score, F80)
     THEN <<"Design Simplification Assessment">> ELSE <<>>)

actionHeuristics(m, risk_score) ==
  (IF m.single_source_flag /\ FGe(risk_score, F60)
     THEN <<"Diversify Vendor Options">> ELSE <<>>) \o
  (IF FGe(m.complexity_score, F70) /\ FLe(m.robustness_score, F40)
     THEN <<"Strategic Redesign Feasibility Study">> ELSE <<>>) \o
  (IF FGe(m.geographic_concentration_index, F0_7)
     THEN <<"Regional Rebalancing Initiative">> ELSE <<>>) \o
  (IF FGe(m.lead_time_days, F90) /\ FGe(risk_score, F50)
     THEN <<"Safety Stock Buffer Review">> ELSE <<>>) \o
  (IF m.alt_vendor_count = F0 /\ FGe(m.criticality_score, F70)
     THEN <<"Qualify Alternate Vendors">> ELSE <<>>) \o
  (IF FGe(m.spend_share, F0_4) /\ FGe(risk_score, F50)
     THEN <<"Negotiate Dual-Sourcing Contracts">> ELSE <<>>) \o
  (IF FLe(m.robustness_score, F30)
     THEN <<"Supplier Development Program">> ELSE <<>>) \o
  (IF FGe(m.complexity_score, F80)
     THEN <<"Design Simplification Assessment">> ELSE <<>>)

\* the eight labels in rule declaration order
AllLabels ==
  << "Diversify Vendor Options", "Strategic Redesign Feasibility Study",
     "Regional Rebalancing Initiative", "Safety Stock Buffer Review",
     "Qualify Alternate Vendors", "Negotiate Dual-Sourcing Contracts",
     "Supplier Development Program", "Design Simplification Assessment" >>

(***************************************************************************)
(* State.  The scorer, the classifier, the heuristics and the normalizer    *)
(* are pure functions; a run draws an input, and an action applies the      *)
(* function the way its callers do (useData: fit, score, classify;          *)
(* PlanDialog: heuristics on a score the caller supplies).                  *)
(***************************************************************************)
VARIABLES
  rec,         \* the metrics record under evaluation, as the fixture holds it
  values,      \* the lead times the normalizer is fitted to
  score_arg,   \* a risk score a caller supplies (riskTier, actionHeuristics)
  pc,          \* "input", then the name of the function applied last
  normalized,  \* normalizeLeadTime(m.lead_time_days)
  risk_score,  \* computeRiskScore(m, normalizeLeadTime)
  risk_tier,   \* riskTier(...)
  actions      \* actionHeuristics(...)

\* the state of the useData hook, of the selection context and of the views
VARIABLES
  systems, subsystems, components, vendors, relationships, regions, metrics,
               \* the arrays the hook holds, each [] until its setter runs
  fetches,     \* the outcome of each fetch(...).then(r => r.json()) of load()
  loading,     \* useData: loading
  error,       \* useData: error, "null" or the message of the failure
  cancelled,   \* the flag of the effect, set by its cleanup
  filters,     \* SelectionProvider: filters
  expanded,    \* BOMTree: expanded, a map from row ids to flags
  selected,    \* BOMTree: selected, a map from row ids to flags
  leadTimeMin, \* BOMTree: leadTimeMin
  totalsByRegion,  \* RegionalDashboard: totalsByRegion
  diversityIndex,  \* RegionalDashboard: diversityIndex, as its characters
  selectedSystem,  \* SupplyChainDashboard: selectedSystem
  threshold,       \* NetworkMap: threshold, in hundredths
  selectedSubsystemId,    \* SelectionProvider: selectedSubsystemId
  highlightedRegionCode,  \* SelectionProvider: highlightedRegionCode
  lassoSelectionIds,      \* SelectionProvider: lassoSelectionIds
  normalizeMemo,   \* useData: the memo holding normalizeLeadTime
  enrichedMemo,    \* useData: the memo holding enriched
  colours,     \* the colour each mapping gives score_arg, once painted
  csvRows,     \* the records handed to toCSV
  csvText      \* the text toCSV returned, as its characters

scoreVars ==
  <<rec, values, score_arg, pc, normalized, risk_score, risk_tier, actions>>
\* the same without pc, which every handler sets to its own name
scoreData ==
  <<rec, values, score_arg, normalized, risk_score, risk_tier, actions>>
dataVars ==
  <<systems, subsystems, components, vendors, relationships, regions, metrics>>
loadVars == <<fetches, loading, error, cancelled>>
treeVars == <<filters, expanded, selected, leadTimeMin>>
regionVars == <<totalsByRegion, diversityIndex>>
dashVars == <<selectedSystem, threshold>>
selectionVars ==
  <<selectedSubsystemId, highlightedRegionCode, lassoSelectionIds>>
memoVars == <<normalizeMemo, enrichedMemo>>
paintVars == <<colours>>
csvVars == <<csvRows, csvText>>
appVars == <<dataVars, loadVars, treeVars, regionVars, dashVars,
             selectionVars, memoVars, paintVars, csvVars>>

vars == <<scoreVars, appVars>>

\* the documents load() fetches, in the order of its Promise.all
Docs == <<"systems", "subsystems", "components", "vendors", "relationships",
          "metrics", "regions">>
DocSet == { Docs[i] : i \in 1..Len(Docs) }

DefaultFilters ==
  [showCriticalOnly |-> FALSE, searchQuery |-> "", riskTier |-> "All"]

\* the hook before any setter has run
EmptyData ==
  /\ systems = <<>>
  /\ subsystems = <<>>
  /\ components = <<>>
  /\ vendors = <<>>
  /\ relationships = <<>>
  /\ regions = <<>>
  /\ metrics = <<>>

\* the load of a mounted hook, nothing settled yet
FreshLoad ==
  /\ fetches = [d \in DocSet |-> "pending"]
  /\ loading = TRUE
  /\ error = "null"
  /\ cancelled = FALSE

\* a map with no entry: the {} of useState<Record<string, boolean>>({})
EmptyMap == [id \in {} |-> FALSE]

\* the views on first render
FreshViews ==
  /\ filters = DefaultFilters
  /\ selectedSubsystemId = "null"
  /\ highlightedRegionCode = "null"
  /\ lassoSelectionIds = <<>>
  /\ expanded = EmptyMap
  /\ selected = EmptyMap
  /\ leadTimeMin = 0
  /\ totalsByRegion = <<>>
  /\ diversityIndex = <<>>
  /\ selectedSystem = "sys-compressor"
  /\ threshold = 15
  /\ colours = <<>>
  /\ csvRows = <<>>
  /\ csvText = <<>>

\* createMinMaxNormalizer(metrics.map(m => m.lead_time_days))
normalizeLeadTimeOf(ms) ==
  createMinMaxNormalizer([i \in 1..Len(ms) |-> FromInt(ms[i].lead_time_days)])

\* new Map(metrics.map(m => [m.id, {...m, risk_score, risk_tier}])): an id
\* met again replaces the entry where it stands
RECURSIVE metricsByIdAfter(_, _, _)
metricsByIdAfter(ms, nz, n) ==
  IF n = 0 THEN <<>>
  ELSE LET map == metricsByIdAfter(ms, nz, n - 1)
           entry == [id |-> ms[n].id, m |-> ms[n],
                     risk_score |-> computeRiskScore(EntityMetrics(ms[n]), nz),
                     risk_tier |->
                       riskTier(computeRiskScore(EntityMetrics(ms[n]), nz))]
       IN IF \E i \in DOMAIN map : map[i].id = entry.id
          THEN [i \in DOMAIN map |->
                  IF map[i].id = entry.id THEN entry ELSE map[i]]
          ELSE Append(map, entry)

\* A memo is held as the dependencies it was last computed for and the
\* arguments its factory closed over then; its value is the factory applied
\* to those arguments (the factories of useData are pure).

\* faulty variant: the memo is computed on mount and kept for good
useMemo_mountOnly(memo, deps, args) == memo

\* React.useMemo on a later render: the stored computation while the
\* dependencies are the ones it was made for, else a new one
useMemo(memo, deps, args) ==
  IF memo.deps = deps THEN memo ELSE [deps |-> deps, args |-> args]

\* the first render of the hook: both memos computed from the metrics held
FirstRender ==
  /\ normalizeMemo = [deps |-> <<metrics>>, args |-> metrics]
  /\ enrichedMemo =
       [deps |-> <<metrics, normalizeMemo>>,
        args |-> [metrics |-> metrics, normalizeLeadTime |-> normalizeMemo]]

\* enriched.metricsById as the hook returns it
metricsById ==
  LET ms == enrichedMemo.args.metrics
      nz == normalizeLeadTimeOf(enrichedMemo.args.normalizeLeadTime.args)
  IN metricsByIdAfter(ms, nz, Len(ms))

BlankApp == EmptyData /\ FreshLoad /\ FreshViews /\ FirstRender

\* ---- bounds of the input space
MaxAlt == 6        \* largest alt_vendor_count drawn
MaxPop == 3        \* longest lead-time population drawn
ScoreMargin == 10  \* scores are drawn from -ScoreMargin .. 100 + ScoreMargin

DefaultRec ==
  [ id |-> "m1", complexity_score |-> 0, robustness_score |-> 100,
    lead_time_days |-> 0, single_source_flag |-> FALSE, alt_vendor_count |-> 0,
    geographic_concentration_index |-> 0, spend_share |-> 20,
    criticality_score |-> 0 ]

\* records for the scorer: the extremes, the scenario of the end-to-end
\* example, values outside the documented ranges
ScoreRecs ==
  [ id : {"m1"},
    complexity_score : {0, 82, 100},
    robustness_score : {0, 35, 100, 250},
    lead_time_days : {0, 20, 70, 120, 200},
    single_source_flag : BOOLEAN,
    alt_vendor_count : {0, MaxAlt},
    geographic_concentration_index : {0, 25, 90, 100, 150},
    spend_share : {20, 40},
    criticality_score : {0 - 50, 0, 90, 100} ]

ScorePops == { <<20, 120>> }

\* records for the heuristics: both sides of every threshold
HeurRecs ==
  [ id : {"m1"},
    complexity_score : {69, 70, 79, 80},
    robustness_score : {30, 31, 40, 41},
    lead_time_days : {89, 90},
    single_source_flag : BOOLEAN,
    alt_vendor_count : {0, 1},
    geographic_concentration_index : {69, 70},
    spend_share : {39, 40},
    criticality_score : {69, 70} ]

HeurScores == {49, 50, 59, 60}

ScoreArgs == (0 - ScoreMargin) .. (100 + ScoreMargin)

LeadTimes == {0, 5, 7, 20, 50, 70, 100, 120}
PopValues == {0, 5, 20, 100, 120}
Pops == UNION { [1..n -> PopValues] : n \in 0..MaxPop }

Floats(vs) == [i \in 1..Len(vs) |-> FromInt(vs[i])]

Blank ==
  /\ pc = "input"
  /\ normalized = F0
  /\ risk_score = F0
  /\ risk_tier = "none"
  /\ actions = <<>>

\* ---- the scoring pipeline of useData, then the heuristics on its score
Init ==
  /\ rec \in ScoreRecs
  /\ values \in ScorePops
  /\ score_arg = 0
  /\ Blank
  /\ BlankApp

Score ==
  /\ pc = "input"
  /\ LET m == EntityMetrics(rec)
         normalizeLeadTime == createMinMaxNormalizer(Floats(values))
         s == computeRiskScore(m, normalizeLeadTime)
     IN /\ normalized' = Normalizer(normalizeLeadTime, m.lead_time_days)
        /\ risk_score' = s
        /\ risk_tier' = riskTier(s)
  /\ pc' = "scored"
  /\ UNCHANGED <<rec, values, score_arg, actions>>
  /\ UNCHANGED appVars

Advise ==
  /\ pc = "scored"
  /\ actions' = actionHeuristics(EntityMetrics(rec), risk_score)
  /\ pc' = "advised"
  /\ UNCHANGED <<rec, values, score_arg, normalized, risk_score, risk_tier>>
  /\ UNCHANGED appVars

Next == Score \/ Advise

Spec == Init /\ [][Next]_vars

\* ---- riskTier on a score of its own
InitTier ==
  /\ rec = DefaultRec
  /\ values = <<>>
  /\ score_arg \in ScoreArgs
  /\ Blank
  /\ BlankApp

Classify ==
  /\ pc = "input"
  /\ risk_tier' = riskTier(FromInt(score_arg))
  /\ pc' = "classified"
  /\ UNCHANGED <<rec, values, score_arg, normalized, risk_score, actions>>
  /\ UNCHANGED appVars

NextTier == Classify

SpecTier == InitTier /\ [][NextTier]_vars

\* ---- actionHeuristics on a record and a score the caller supplies
InitHeur ==
  /\ rec \in HeurRecs
  /\ values = <<>>
  /\ score_arg \in HeurScores
  /\ Blank
  /\ BlankApp

Plan ==
  /\ pc = "input"
  /\ actions' = actionHeuristics(EntityMetrics(rec), FromInt(score_arg))
  /\ pc' = "planned"
  /\ UNCHANGED <<rec, values, score_arg, normalized, risk_score, risk_tier>>
  /\ UNCHANGED appVars

NextHeur == Plan

SpecHeur == InitHeur /\ [][NextHeur]_vars

\* ---- the normalizer on a population and a value
InitNorm ==
  /\ \E v \in LeadTimes : rec = [DefaultRec EXCEPT !.lead_time_days = v]
  /\ values \in Pops
  /\ score_arg = 0
  /\ Blank
  /\ BlankApp

Fit ==
  /\ pc = "input"
  /\ normalized' = Normalizer(createMinMaxNormalizer(Floats(values)),
                              FromInt(rec.lead_time_days))
  /\ pc' = "normalized"
  /\ UNCHANGED <<rec, values, score_arg, risk_score, risk_tier, actions>>
  /\ UNCHANGED appVars

NextNorm == Fit

SpecNorm == InitNorm /\ [][NextNorm]_vars

(***************************************************************************)
(* Exact arithmetic on the values doubles hold (dyadic rationals), for      *)
(* stating what a result should be in the reals.                            *)
(***************************************************************************)
XMul(a, b) == FCanon(a.neg # b.neg, BMul(a.m, b.m), a.e + b.e)

XAdd(a, b) ==
  IF a.m = <<>> THEN b
  ELSE IF b.m = <<>> THEN a
  ELSE LET e == Min2(a.e, b.e)
           ma == BShl(a.m, a.e - e)
           mb == BShl(b.m, b.e - e)
           c == BCmp(ma, mb)
       IN IF a.neg = b.neg THEN FCanon(a.neg, BAdd(ma, mb), e)
          ELSE IF c = 0 THEN FZero
          ELSE IF c > 0 THEN FCanon(a.neg, BSub(ma, mb), e)
          ELSE FCanon(b.neg, BSub(mb, ma), e)

XSub(a, b) == XAdd(a, FNeg(b))
XAbs(a) == [a EXCEPT !.neg = FALSE]
\* a < b, a <= b on exact values (the sign of the exact difference)
XLt(a, b) == LET d == XSub(a, b) IN d.neg /\ d.m # <<>>
XLe(a, b) == ~XLt(b, a)

Scored == pc \in {"scored", "advised"}

\* the sourcing term of the score table, on the integers of the record
SourcingTerm(r) ==
  IF r.single_source_flag THEN 100 ELSE Max2(0, 60 - 10 * r.alt_vendor_count)

\* 100 times the weighted sum of the score table, in the reals, for the
\* values the record's numbers and the normalized lead time L hold
ExactSum100(r, L) ==
  XAdd(XAdd(FromInt(28 * (100 - r.robustness_score) + 20 * r.complexity_score
                    + 18 * SourcingTerm(r) + 8 * r.criticality_score),
            XMul(FromInt(1400), Dec(r.geographic_concentration_index, 100))),
       XMul(FromInt(12), L))

\* n is s100/100 rounded to the nearest integer (a half going up), then
\* clamped to 0..100
IsRoundedClamped(s100, n) ==
  \/ n = 0 /\ XLt(s100, FromInt(50))
  \/ n = 100 /\ XLe(FromInt(9950), s100)
  \/ /\ n \in 0..100
     /\ XLe(FromInt(100 * n - 50), s100)
     /\ XLt(s100, FromInt(100 * n + 50))

Clamp(x) == MathMin(F100, MathMax(F0, x))

\* on the sum the code computes, clamping then rounding is rounding then clamping
ClampRoundCommute ==
  Scored =>
    LET s == WeightedSum(EntityMetrics(rec), normalized)
    IN MathRound(Clamp(s)) = Clamp(MathRound(s))

\* C1: the score is the weighted sum 0.28*(100 - robustness) + 0.20*complexity
\* + 0.18*S + 0.14*(concentration*100) + 0.12*L + 0.08*criticality, rounded to
\* the nearest integer and clamped to [0,100]; and clamp-then-round (the code)
\* gives what round-then-clamp (the specification) gives.
C1_ScoreIsRoundedWeightedSum ==
  Scored =>
    /\ FIsInt(risk_score)
    /\ IsRoundedClamped(ExactSum100(rec, normalized), FToInt(risk_score))
    /\ ClampRoundCommute

\* C2: computeRiskScore returns an integer in 0..100, whatever the ranges of
\* the record's fields and of the normalizer's output.
C2_ScoreInRange ==
  Scored => FIsInt(risk_score) /\ FToInt(risk_score) \in 0..100

\* C2 witness: scored with robustness above 100, concentration above 1, a
\* negative criticality and a normalized lead time below 0
C2_Witness ==
  /\ pc = "scored"
  /\ rec.robustness_score > 100
  /\ rec.criticality_score < 0
  /\ rec.geographic_concentration_index > 100
  /\ FLt(normalized, F0)

\* the record of C3: every factor of the table at its safe extreme
AtSafeExtremes ==
  /\ rec.robustness_score = 100
  /\ rec.complexity_score = 0
  /\ ~rec.single_source_flag
  /\ rec.geographic_concentration_index = 0
  /\ normalized = F0
  /\ rec.criticality_score = 0

\* C3 as stated: at the safe extremes the score is 0 for every
\* alt_vendor_count and spend_share.
C3_SafeExtremesScoreZero == Scored /\ AtSafeExtremes => risk_score = F0

\* C3 amended: at the safe extremes the score is the rounded sourcing term
\* 0.18 * max(0, 60 - 10*alt_vendor_count), which is 0 exactly when
\* alt_vendor_count >= 6, for every spend_share.
C3_SafeExtremesScoreIsSourcing ==
  Scored /\ AtSafeExtremes =>
    /\ FIsInt(risk_score)
    /\ IsRoundedClamped(FromInt(18 * Max2(0, 60 - 10 * rec.alt_vendor_count)),
                        FToInt(risk_score))
    /\ (risk_score = F0 <=> rec.alt_vendor_count >= 6)

\* C3 witness: scored at the safe extremes with six or more alternate vendors
C3_Witness ==
  /\ pc = "scored"
  /\ AtSafeExtremes
  /\ rec.alt_vendor_count >= 6
  /\ rec.spend_share = 40
  /\ risk_score = F0

\* the record of C4: every factor at its risky extreme
AtRiskyExtremes ==
  /\ rec.robustness_score = 0
  /\ rec.complexity_score = 100
  /\ rec.single_source_flag
  /\ rec.geographic_concentration_index = 100
  /\ normalized = F100
  /\ rec.criticality_score = 100

\* C4: at the risky extremes the score is 100 for every alt_vendor_count and
\* spend_share.
C4_RiskyExtremesScoreHundred == Scored /\ AtRiskyExtremes => risk_score = F100

\* C4 witness: scored at the risky extremes
C4_Witness ==
  /\ pc = "scored"
  /\ AtRiskyExtremes
  /\ rec.alt_vendor_count = 0
  /\ rec.spend_share = 40
  /\ risk_score = F100

TierRank(t) ==
  CASE t = "Low" -> 0 [] t = "Moderate" -> 1 [] t = "High" -> 2
    [] t = "Critical" -> 3

\* C5: riskTier is Low iff s <= 34, Moderate iff 35 <= s <= 59, High iff
\* 60 <= s <= 74, Critical iff s >= 75, and never decreases as s increases.
C5_TierBands ==
  pc = "classified" =>
    /\ (risk_tier = "Low" <=> score_arg <= 34)
    /\ (risk_tier = "Moderate" <=> 35 <= score_arg /\ score_arg <= 59)
    /\ (risk_tier = "High" <=> 60 <= score_arg /\ score_arg <= 74)
    /\ (risk_tier = "Critical" <=> score_arg >= 75)
    /\ TierRank(risk_tier) <= TierRank(riskTier(FromInt(score_arg + 1)))

\* C5 witness: a score on a band's lower edge, classified
C5_Witness == pc = "classified" /\ score_arg = 35 /\ risk_tier = "Moderate"

Range(f) == {f[i] : i \in DOMAIN f}

\* the component of the end-to-end scenario, lead time 120 in a population
\* that normalizes it to 100
Scenario ==
  /\ rec.robustness_score = 35
  /\ rec.complexity_score = 82
  /\ rec.single_source_flag
  /\ rec.alt_vendor_count = 0
  /\ rec.geographic_concentration_index = 90
  /\ rec.lead_time_days = 120
  /\ rec.criticality_score = 90
  /\ values = <<20, 120>>

\* C6: the scenario scores 84, is Critical, and its actions include the four
\* labels the specification lists.
C6_EndToEnd ==
  pc = "advised" /\ Scenario =>
    /\ normalized = F100
    /\ risk_score = FromInt(84)
    /\ risk_tier = "Critical"
    /\ { "Diversify Vendor Options", "Regional Rebalancing Initiative",
         "Safety Stock Buffer Review", "Qualify Alternate Vendors" }
         \subseteq Range(actions)

\* C6 witness: the scenario taken through scoring and the heuristics
C6_Witness == pc = "advised" /\ Scenario /\ risk_score = FromInt(84)

Has(label) == label \in Range(actions)

\* C7: each of the eight labels is in the list exactly when its rule holds.
C7_LabelsIffRules ==
  pc = "planned" =>
    /\ Has("Diversify Vendor Options")
         <=> rec.single_source_flag /\ score_arg >= 60
    /\ Has("Strategic Redesign Feasibility Study")
         <=> rec.complexity_score >= 70 /\ rec.robustness_score <= 40
    /\ Has("Regional Rebalancing Initiative")
         <=> rec.geographic_concentration_index >= 70
    /\ Has("Safety Stock Buffer Review")
         <=> rec.lead_time_days >= 90 /\ score_arg >= 50
    /\ Has("Qualify Alternate Vendors")
         <=> rec.alt_vendor_count = 0 /\ rec.criticality_score >= 70
    /\ Has("Negotiate Dual-Sourcing Contracts")
         <=> rec.spend_share >= 40 /\ score_arg >= 50
    /\ Has("Supplier Development Program") <=> rec.robustness_score <= 30
    /\ Has("Design Simplification Assessment") <=> rec.complexity_score >= 80
    /\ Range(actions) \subseteq Range(AllLabels)

\* C7 witness: a record no rule fires on, giving the empty list
C7_Witness ==
  /\ pc = "planned"
  /\ actions = <<>>
  /\ rec.geographic_concentration_index = 69
  /\ rec.spend_share = 39
  /\ score_arg = 60

\* position of a label in the declaration order
LabelIndex(label) == CHOOSE i \in DOMAIN AllLabels : AllLabels[i] = label

\* C8: the list is a subsequence of the eight labels in declaration order:
\* no label twice, relative order fixed.
C8_SubsequenceOfRules ==
  pc = "planned" =>
    /\ Range(actions) \subseteq Range(AllLabels)
    /\ \A i, j \in DOMAIN actions :
         i < j => LabelIndex(actions[i]) < LabelIndex(actions[j])

\* C8 witness: every rule fires, the list is the eight labels in order
C8_Witness == pc = "planned" /\ actions = AllLabels

\* greatest and least of a non-empty population of integers
MaxOf(vs) == CHOOSE x \in Range(vs) : \A y \in Range(vs) : y <= x
MinOf(vs) == CHOOSE x \in Range(vs) : \A y \in Range(vs) : x <= y

EqualPopulation ==
  /\ pc = "normalized"
  /\ values # <<>>
  /\ \A i \in DOMAIN values : values[i] = rec.lead_time_days

\* C9: on a non-empty population whose values all equal c, the normalizer
\* maps c to 0 (a finite number: the zero range is guarded).
C9_EqualPopulationGivesZero == EqualPopulation => normalized = F0

\* C9 witness: the population [5,5,5] applied to 5
C9_Witness ==
  pc = "normalized" /\ values = <<5, 5, 5>> /\ rec.lead_time_days = 5

InsidePopulation ==
  /\ pc = "normalized"
  /\ values # <<>>
  /\ MinOf(values) < MaxOf(values)
  /\ MinOf(values) <= rec.lead_time_days
  /\ rec.lead_time_days <= MaxOf(values)

NormalizerOf(vs, v) == Normalizer(createMinMaxNormalizer(Floats(vs)), FromInt(v))

\* min -> 0, max -> 100, values in [0,100], non-decreasing
NormalizerShape ==
  LET v == rec.lead_time_days
  IN /\ (v = MinOf(values) => normalized = F0)
     /\ (v = MaxOf(values) => normalized = F100)
     /\ FLe(F0, normalized) /\ FLe(normalized, F100)
     /\ \A w \in LeadTimes :
          v <= w /\ w <= MaxOf(values) => FLe(normalized, NormalizerOf(values, w))
     /\ (values = <<0, 100>> /\ v = 50 => normalized = F50)

\* C10 as stated: inside a population with max > min the normalizer is the
\* linear map v -> (v - min) * 100 / (max - min).
C10_NormalizerIsLinearMap ==
  InsidePopulation =>
    /\ XMul(normalized, FromInt(MaxOf(values) - MinOf(values)))
         = FromInt(100 * (rec.lead_time_days - MinOf(values)))
    /\ NormalizerShape

TwoToMinus51 == [k |-> "fin", neg |-> FALSE, m |-> <<1>>, e |-> 0 - 51]

\* C10 amended: the normalizer is that linear map up to the rounding of its
\* two double operations (relative error at most 2^-51); min -> 0, max -> 100
\* and [0,100]: 50 -> 50 are exact, it is non-decreasing and stays in [0,100].
C10_NormalizerIsRoundedLinearMap ==
  InsidePopulation =>
    /\ LET exact100 == FromInt(100 * (rec.lead_time_days - MinOf(values)))
           got == XMul(normalized, FromInt(MaxOf(values) - MinOf(values)))
       IN XLe(XAbs(XSub(got, exact100)), XMul(exact100, TwoToMinus51))
    /\ NormalizerShape

\* C10 witness: a value strictly inside a population, where rounding shows
C10_Witness ==
  /\ InsidePopulation
  /\ values = <<0, 100>>
  /\ rec.lead_time_days = 7
  /\ normalized # FromInt(7)


(***************************************************************************)
(* client/components/RegionalDashboard.tsx: the regional rollup and the     *)
(* diversity index.  A Map is the sequence of its entries in insertion      *)
(* order; a weight is held in hundredths, as its decimal literal reads.     *)
(***************************************************************************)
Weight(r) == Dec(r.weight, 100)

\* Array.prototype.find as the index of the first match, 0 for undefined
FindVendor(vens, id) ==
  LET hits == { i \in DOMAIN vens : vens[i].id = id }
  IN IF hits = {} THEN 0 ELSE CHOOSE i \in hits : \A j \in hits : i <= j

\* x || d on a number: d for the falsy numbers 0 and NaN
OrNumber(x, d) ==
  IF x.k = "nan" \/ (x.k = "fin" /\ x.m = <<>>) THEN d ELSE x

\* map.get(key) || 0
MapGetOr0(map, key) ==
  LET hits == { i \in DOMAIN map : map[i].region = key }
  IN IF hits = {} THEN F0 ELSE OrNumber(map[CHOOSE i \in hits : TRUE].value, F0)

\* map.set(key, v): the entry replaced in place, or appended
MapSet(map, key, v) ==
  IF \E i \in DOMAIN map : map[i].region = key
  THEN [i \in DOMAIN map |->
          IF map[i].region = key THEN [region |-> key, value |-> v] ELSE map[i]]
  ELSE Append(map, [region |-> key, value |-> v])

\* faulty variant: the weight stored, not added to the region's total
RECURSIVE totalsAfter_overwrite(_, _, _)
totalsAfter_overwrite(rels, vens, n) ==
  IF n = 0 THEN <<>>
  ELSE LET map == totalsAfter_overwrite(rels, vens, n - 1)
           r == rels[n]
           ven == FindVendor(vens, r.toId)
       IN IF r.toType = "vendor" /\ ven # 0
          THEN MapSet(map, vens[ven].regionCode, Weight(r))
          ELSE map

\* the map after the forEach has visited the first n relationships
RECURSIVE totalsAfter(_, _, _)
totalsAfter(rels, vens, n) ==
  IF n = 0 THEN <<>>
  ELSE LET map == totalsAfter(rels, vens, n - 1)
           r == rels[n]
           ven == FindVendor(vens, r.toId)
       IN IF r.toType = "vendor" /\ ven # 0
          THEN MapSet(map, vens[ven].regionCode,
                      FAdd(MapGetOr0(map, vens[ven].regionCode), Weight(r)))
          ELSE map

\* faulty variant: the map seeded with the regions of the choropleth
RollupOf_seeded(rels, vens) ==
  [i \in 1..6 |->
     [region |-> <<"US", "DE", "CN", "MX", "IN", "JP">>[i], value |-> F0]]
  \o totalsAfter(rels, vens, Len(rels))

RollupOf(rels, vens) == totalsAfter(rels, vens, Len(rels))

\* totalsByRegion.reduce((a, b) => a + b.value, 0)
RECURSIVE SumValues(_)
SumValues(totals) ==
  IF totals = <<>> THEN F0
  ELSE FAdd(SumValues(SubSeq(totals, 1, Len(totals) - 1)),
            totals[Len(totals)].value)

\* totalsByRegion.reduce((sum, x) => sum + Math.pow(x.value / total, 2), 0);
\* Math.pow(s, 2) is the correctly rounded square
RECURSIVE SumSquaredShares(_, _)
SumSquaredShares(totals, total) ==
  IF totals = <<>> THEN F0
  ELSE LET share == FQuot(totals[Len(totals)].value, total)
       IN FAdd(SumSquaredShares(SubSeq(totals, 1, Len(totals) - 1), total),
               FMul(share, share))

DigitChars == <<"0", "1", "2", "3", "4", "5", "6", "7", "8", "9">>

\* the decimal digits of a natural number
RECURSIVE IntChars(_)
IntChars(n) ==
  IF n < 10 THEN <<DigitChars[n + 1]>>
  ELSE Append(IntChars(n \div 10), DigitChars[(n % 10) + 1])

\* the integer n for which n / 10 is nearest to |x|, the larger n on a tie
Tenths(x) ==
  LET m10 == BMulSmall(x.m, 10, 0)
  IN IF x.e >= 0 THEN BToInt(BShl(m10, x.e))
     ELSE BToInt(BShr(m10, 0 - x.e)) + BBit(m10, (0 - x.e) - 1)

\* Number.prototype.toFixed(1), for |x| < 10^21
toFixed1(x) ==
  IF x.k = "nan" THEN <<"N", "a", "N">>
  ELSE IF x.k = "inf"
  THEN (IF x.neg THEN <<"-">> ELSE <<>>)
         \o <<"I", "n", "f", "i", "n", "i", "t", "y">>
  ELSE LET n == Tenths(x)
       IN (IF x.neg THEN <<"-">> ELSE <<>>)
            \o IntChars(n \div 10) \o <<".", DigitChars[(n % 10) + 1]>>

\* (1 - hhi) * 100
DiversityValue(totals) ==
  LET total == OrNumber(SumValues(totals), F1)
      hhi == SumSquaredShares(totals, total)
  IN FMul(FSub(F1, hhi), F100)

\* faulty variant: the concentration itself, not its complement
DiversityOf_hhi(totals) ==
  LET total == OrNumber(SumValues(totals), F1)
  IN toFixed1(FMul(SumSquaredShares(totals, total), F100)) \o <<"%">>

DiversityOf(totals) == toFixed1(DiversityValue(totals)) \o <<"%">>

\* ---- bounds of the regional input space
MaxRels == 3       \* longest relationship list drawn

\* the vendors of the fixture: two of them share a region
RegionalVendors ==
  << [id |-> "ven-a", name |-> "Axial", tier |-> 0, regionCode |-> "US"],
     [id |-> "ven-b", name |-> "Borea", tier |-> 1, regionCode |-> "DE"],
     [id |-> "ven-c", name |-> "Castor", tier |-> 1, regionCode |-> "US"],
     [id |-> "ven-d", name |-> "Doria", tier |-> 2, regionCode |-> "CN"] >>

VendorLists == { RegionalVendors, <<>> }

\* edges to the four vendors and to a vendor that is not loaded, and one
\* edge that ends at a component
RegionalRels ==
  [ fromType : {"component"}, fromId : {"cmp-1"}, toType : {"vendor"},
    toId : {"ven-a", "ven-b"}, weight : {0, 10, 20}, exclusivity : {"dual"} ]
  \cup
  [ fromType : {"component"}, fromId : {"cmp-1"}, toType : {"vendor"},
    toId : {"ven-c", "ven-d", "ven-x"}, weight : {10},
    exclusivity : {"balanced"} ]
  \cup
  [ fromType : {"subsystem"}, fromId : {"sub-1"}, toType : {"component"},
    toId : {"cmp-1"}, weight : {50}, exclusivity : {"single"} ]

RelLists == UNION { [1..n -> RegionalRels] : n \in 0..MaxRels }

BlankScore ==
  /\ rec = DefaultRec
  /\ values = <<>>
  /\ score_arg = 0
  /\ Blank

\* the load of a hook whose seven documents have arrived
Loaded ==
  /\ fetches = [d \in DocSet |-> "ok"]
  /\ loading = FALSE
  /\ error = "null"
  /\ cancelled = FALSE

InitRegional ==
  /\ BlankScore
  /\ systems = <<>>
  /\ subsystems = <<>>
  /\ components = <<>>
  /\ vendors \in VendorLists
  /\ relationships \in RelLists
  /\ regions = <<>>
  /\ metrics = <<>>
  /\ Loaded
  /\ FreshViews
  /\ FirstRender

\* a render of RegionalDashboard: both memos are computed
RenderRegional ==
  /\ pc = "input"
  /\ totalsByRegion' = RollupOf(relationships, vendors)
  /\ diversityIndex' = DiversityOf(RollupOf(relationships, vendors))
  /\ pc' = "rolled"
  /\ UNCHANGED <<rec, values, score_arg, normalized, risk_score, risk_tier,
                 actions>>
  /\ UNCHANGED <<dataVars, loadVars, treeVars, dashVars>>
  /\ UNCHANGED <<selectionVars, memoVars, paintVars, csvVars>>

NextRegional == RenderRegional

SpecRegional == InitRegional /\ [][NextRegional]_vars

\* ---- C11
\* the relationships that end at a loaded vendor of region g, in array order
ResolvingTo(g) ==
  SelectSeq(relationships,
            LAMBDA r : /\ r.toType = "vendor"
                       /\ \E i \in DOMAIN vendors :
                            vendors[i].id = r.toId /\ vendors[i].regionCode = g)

\* the sum of the weights of a list of relationships, added in array order
RECURSIVE WeightSum(_)
WeightSum(rels) ==
  IF rels = <<>> THEN F0
  ELSE FAdd(WeightSum(SubSeq(rels, 1, Len(rels) - 1)), Weight(rels[Len(rels)]))

RegionCodes == { RegionalVendors[i].regionCode : i \in DOMAIN RegionalVendors }

Dangling(r) == r.toType = "vendor" /\ FindVendor(vendors, r.toId) = 0

\* C11: the rollup holds one entry per region that some vendor relationship
\* resolves to, and its value is the sum of the weights of exactly the
\* relationships resolving to that region; a dangling relationship and a
\* relationship that does not end at a vendor count nowhere.
C11_RollupIsSumByRegion ==
  pc = "rolled" =>
    /\ \A i, j \in DOMAIN totalsByRegion :
         totalsByRegion[i].region = totalsByRegion[j].region => i = j
    /\ { totalsByRegion[i].region : i \in DOMAIN totalsByRegion }
         = { g \in RegionCodes : ResolvingTo(g) # <<>> }
    /\ \A i \in DOMAIN totalsByRegion :
         totalsByRegion[i].value = WeightSum(ResolvingTo(totalsByRegion[i].region))

\* C11 witness: a rollup over a dangling relationship and two relationships
\* that reach the same region through different vendors
C11_Witness ==
  /\ pc = "rolled"
  /\ \E i \in DOMAIN relationships : Dangling(relationships[i])
  /\ \E i, j \in DOMAIN relationships :
       /\ relationships[i].toId = "ven-a" /\ relationships[i].weight > 0
       /\ relationships[j].toId = "ven-c" /\ relationships[j].weight > 0
  /\ Len(totalsByRegion) = 1


\* ---- C12
\* the sum of the region values and of their squares, in the reals
RECURSIVE ExactTotal(_)
ExactTotal(totals) ==
  IF totals = <<>> THEN FZero
  ELSE XAdd(ExactTotal(Tail(totals)), totals[1].value)

RECURSIVE ExactSquares(_)
ExactSquares(totals) ==
  IF totals = <<>> THEN FZero
  ELSE XAdd(ExactSquares(Tail(totals)), XMul(totals[1].value, totals[1].value))

DigitValue(c) == CHOOSE d \in 0..9 : DigitChars[d + 1] = c

RECURSIVE CharsToInt(_)
CharsToInt(cs) ==
  IF cs = <<>> THEN 0
  ELSE 10 * CharsToInt(SubSeq(cs, 1, Len(cs) - 1)) + DigitValue(cs[Len(cs)])

IsDigit(c) == c \in Range(DigitChars)

\* the text is digits, a point, one digit and a percent sign
IsPercentText(cs) ==
  /\ Len(cs) >= 4
  /\ cs[Len(cs)] = "%"
  /\ cs[Len(cs) - 2] = "."
  /\ \A i \in 1..Len(cs) : i \notin {Len(cs), Len(cs) - 2} => IsDigit(cs[i])
  /\ Len(cs) > 4 => cs[1] # "0"

\* ten times the number a percent text shows
ShownTenths(cs) == CharsToInt(SelectSeq(cs, IsDigit))

\* the rollup has weight in it
TotalPositive ==
  /\ pc = "rolled"
  /\ XLt(FZero, ExactTotal(totalsByRegion))

\* T^2 and 1000 * (T^2 - sum of squares): 1000 * (1 - sum share^2) is their
\* quotient
TotalSquared == XMul(ExactTotal(totalsByRegion), ExactTotal(totalsByRegion))
Diversity1000 ==
  XMul(FromInt(1000), XSub(TotalSquared, ExactSquares(totalsByRegion)))

TwoToMinus40 == [k |-> "fin", neg |-> FALSE, m |-> <<1>>, e |-> 0 - 40]

\* C12 as stated: the diversity index is (1 - sum share_i^2) * 100, and it
\* is below 100.
C12_DiversityIsComplementOfHHI ==
  TotalPositive =>
    /\ IsPercentText(diversityIndex)
    /\ XMul(FromInt(ShownTenths(diversityIndex)), TotalSquared) = Diversity1000
    /\ ShownTenths(diversityIndex) < 1000

\* C12 amended: the diversity index is the text of (1 - sum share_i^2) * 100
\* computed in doubles, printed with one decimal and a percent sign: the
\* number it shows is within 0.05 (and the rounding of the double
\* operations) of the formula, it lies in [0, 100], and it is "0.0%" when
\* all the weight is in one region.
C12_DiversityIsRoundedComplementOfHHI ==
  TotalPositive =>
    /\ IsPercentText(diversityIndex)
    /\ ShownTenths(diversityIndex) \in 0..1000
    /\ XLe(XMul(FromInt(2),
                XAbs(XSub(XMul(FromInt(ShownTenths(diversityIndex)),
                               TotalSquared),
                          Diversity1000))),
           XAdd(TotalSquared, XMul(TwoToMinus40, TotalSquared)))
    /\ Len(totalsByRegion) = 1 => diversityIndex = <<"0", ".", "0", "%">>

\* C12 witness: weight in two regions, in shares whose index has no exact
\* one-decimal form
C12_Witness ==
  /\ TotalPositive
  /\ Len(totalsByRegion) = 2
  /\ XMul(FromInt(ShownTenths(diversityIndex)), TotalSquared) # Diversity1000


(***************************************************************************)
(* BOMTree: the flattened rows, the expand/collapse state and the filters.  *)
(* null is the string "null"; name.length is Len(name).                     *)
(***************************************************************************)
Null == "null"

\* the concatenation of a sequence of sequences
RECURSIVE Concat(_)
Concat(ss) == IF ss = <<>> THEN <<>> ELSE ss[1] \o Concat(Tail(ss))

fakeLead(name) == 20 + (Len(name) % 12) * 7
fakeRisk(name) == (Len(name) * 7) % 100
fakeAlt(name) == Len(name) % 3
RegionNames == <<"US", "DE", "CN", "MX", "IN", "JP">>
fakeRegion(name) == RegionNames[(Len(name) % 6) + 1]

\* the tier BOMTree derives from a system's synthetic risk
rowTier(sysRisk) ==
  IF sysRisk <= 34 THEN "Low"
  ELSE IF sysRisk <= 59 THEN "Moderate"
  ELSE IF sysRisk <= 74 THEN "High"
  ELSE "Critical"

\* ven.id.charCodeAt(0): every vendor id of the fixtures begins with "v"
charCodeAt0(id) == 118

\* vendors.slice(0, 2)
Slice2(vens) == SubSeq(vens, 1, Min2(2, Len(vens)))

VendorRow(comp, ven) ==
  LET vRegion == IF charCodeAt0(ven.id) % 2 = 1 THEN "US" ELSE "CN"
  IN [id |-> comp.id \o "-" \o ven.id, type |-> "Vendor", name |-> ven.name,
      parentId |-> comp.id, lead |-> fakeLead(ven.name),
      risk |-> fakeRisk(ven.name), alt |-> 0, single |-> vRegion = "CN",
      region |-> vRegion, level |-> 3]

\* faulty variant: the component filters drop the component row only
ComponentRows_keepVendors(comp, sub, vens, flt, ltm) ==
  LET compLead == fakeLead(comp.name)
      compRisk == fakeRisk(comp.name)
      vrows == [i \in 1..Len(Slice2(vens)) |-> VendorRow(comp, vens[i])]
  IN IF flt.showCriticalOnly /\ compRisk < 60 THEN vrows
     ELSE IF ltm # 0 /\ compLead < ltm THEN vrows
     ELSE << [id |-> comp.id, type |-> "Component", name |-> comp.name,
              parentId |-> sub.id, lead |-> compLead, risk |-> compRisk,
              alt |-> fakeAlt(comp.name), single |-> Len(comp.name) % 5 = 0,
              region |-> fakeRegion(comp.name), level |-> 2] >>
          \o vrows

\* the rows one component contributes: none if a filter skips it
ComponentRows(comp, sub, vens, flt, ltm) ==
  LET compLead == fakeLead(comp.name)
      compRisk == fakeRisk(comp.name)
  IN IF flt.showCriticalOnly /\ compRisk < 60 THEN <<>>
     ELSE IF ltm # 0 /\ compLead < ltm THEN <<>>
     ELSE << [id |-> comp.id, type |-> "Component", name |-> comp.name,
              parentId |-> sub.id, lead |-> compLead, risk |-> compRisk,
              alt |-> fakeAlt(comp.name), single |-> Len(comp.name) % 5 = 0,
              region |-> fakeRegion(comp.name), level |-> 2] >>
          \o [i \in 1..Len(Slice2(vens)) |-> VendorRow(comp, vens[i])]

SubsystemRows(sub, sys, comps, vens, flt, ltm) ==
  LET mine == SelectSeq(comps, LAMBDA c : c.subsystemId = sub.id)
  IN << [id |-> sub.id, type |-> "Subsystem", name |-> sub.name,
         parentId |-> sys.id, lead |-> fakeLead(sub.name),
         risk |-> fakeRisk(sub.name), alt |-> 2, single |-> FALSE,
         region |-> "-", level |-> 1] >>
     \o Concat([i \in 1..Len(mine) |->
                  ComponentRows(mine[i], sub, vens, flt, ltm)])

SystemRows(sys, subs, comps, vens, flt, ltm) ==
  LET sysRisk == fakeRisk(sys.name)
      mine == SelectSeq(subs, LAMBDA x : x.systemId = sys.id)
  IN IF flt.riskTier # "All" /\ rowTier(sysRisk) # flt.riskTier THEN <<>>
     ELSE << [id |-> sys.id, type |-> "System", name |-> sys.name,
              parentId |-> Null, lead |-> fakeLead(sys.name),
              risk |-> sysRisk, alt |-> 2, single |-> FALSE, region |-> "-",
              level |-> 0] >>
          \o Concat([i \in 1..Len(mine) |->
                       SubsystemRows(mine[i], sys, comps, vens, flt, ltm)])

\* BOMTree.rows
RowsOf(syss, subs, comps, vens, flt, ltm) ==
  Concat([i \in 1..Len(syss) |->
            SystemRows(syss[i], subs, comps, vens, flt, ltm)])

rows == RowsOf(systems, subsystems, components, vendors, filters, leadTimeMin)

\* rows.find((r) => r.id === id), as an index, 0 for undefined
FindRow(rs, id) ==
  LET hits == { i \in DOMAIN rs : rs[i].id = id }
  IN IF hits = {} THEN 0 ELSE CHOOSE i \in hits : \A j \in hits : i <= j

\* hasChildren: childrenOf holds a row whose parentId is this id
hasChildren(rs, row) == \E i \in DOMAIN rs : rs[i].parentId = row.id

\* map[id] read as a condition: an absent entry is undefined, which is falsy
Flag(map, id) == id \in DOMAIN map /\ map[id]

\* the ids whose flag reads true
TrueIds(map) == { id \in DOMAIN map : map[id] }

\* { ...map, [id]: v }
WithEntry(map, id, v) ==
  [x \in DOMAIN map \cup {id} |-> IF x = id THEN v ELSE map[x]]

\* faulty variant: a row shows as soon as its parent is expanded
isVisible_parentOnly(rs, exp, row) ==
  IF row.parentId = Null THEN TRUE
  ELSE LET parent == FindRow(rs, row.parentId)
       IN IF parent = 0 THEN TRUE ELSE Flag(exp, rs[parent].id)

RECURSIVE isVisible(_, _, _)
isVisible(rs, exp, row) ==
  IF row.parentId = Null THEN TRUE
  ELSE LET parent == FindRow(rs, row.parentId)
       IN IF parent = 0 THEN TRUE
          ELSE Flag(exp, rs[parent].id) /\ isVisible(rs, exp, rs[parent])

VisibleRowsOf(rs, exp) == SelectSeq(rs, LAMBDA row : isVisible(rs, exp, row))

visibleRows == VisibleRowsOf(rows, expanded)

\* faulty variant: the button only ever expands
toggle_expandOnly(e, id) == WithEntry(e, id, TRUE)

\* toggle: setExpanded((e) => ({ ...e, [id]: !e[id] }))
toggle(e, id) == WithEntry(e, id, ~Flag(e, id))

\* the expand button of a row: onClick={() => hasChildren(row) && toggle(row.id)}
onExpandClick(rs, e, row) ==
  IF hasChildren(rs, row) THEN toggle(e, row.id) ELSE e

\* selectOne: setSelected((s) => ({ ...s, [id]: on }))
selectOne(s, id, on) == WithEntry(s, id, on)

\* the patch of the select-all checkbox: every visible row's id set to on
selectAllPatch(vis, on) ==
  [id \in { vis[i].id : i \in DOMAIN vis } |-> on]

\* faulty variant: the patch replaces the map
mergePatch_replace(s, patch) == patch

\* setSelected(s => ({ ...s, ...patch }))
mergePatch(s, patch) ==
  [x \in DOMAIN s \cup DOMAIN patch |->
     IF x \in DOMAIN patch THEN patch[x] ELSE s[x]]

\* the checked attribute of the select-all checkbox
headerCheckedOf(vis, s) ==
  /\ \A i \in DOMAIN vis : Flag(s, vis[i].id)
  /\ Len(vis) > 0

headerChecked == headerCheckedOf(visibleRows, selected)

\* Object.values(selected).filter(Boolean).length
selectedCount == Cardinality(TrueIds(selected))

\* the rows handed to PlanDialog: rows.filter(r => selected[r.id])
planRows == SelectSeq(rows, LAMBDA r : Flag(selected, r.id))

\* ---- the populations the tree is drawn over
TreeSystems ==
  << [id |-> "sys-inlet", name |-> "Inlet", code |-> "INL"],
     [id |-> "sys-compressor", name |-> "Compressor", code |-> "CMP"] >>

\* sub-3 points at a system that is not loaded
TreeSubsystems ==
  << [id |-> "sub-1", systemId |-> "sys-inlet", name |-> "Filter House",
      code |-> "FH"],
     [id |-> "sub-2", systemId |-> "sys-compressor", name |-> "Rotor", code |-> "RT"],
     [id |-> "sub-3", systemId |-> "sys-9", name |-> "Ghost", code |-> "GH"] >>

\* cmp-4 points at a subsystem that is not loaded
TreeComponents ==
  << [id |-> "cmp-1", subsystemId |-> "sub-1", name |-> "Vane",
      code |-> "VN", critical |-> FALSE],
     [id |-> "cmp-2", subsystemId |-> "sub-2", name |-> "Blade Ring",
      code |-> "BR", critical |-> TRUE],
     [id |-> "cmp-4", subsystemId |-> "sub-9", name |-> "Orphan",
      code |-> "OR", critical |-> FALSE] >>

\* cmp-1 is supplied by ven-c alone, cmp-2 by ven-a and by a vendor that is
\* not loaded
TreeRelationships ==
  << [fromType |-> "component", fromId |-> "cmp-1", toType |-> "vendor",
      toId |-> "ven-c", weight |-> 100, exclusivity |-> "single"],
     [fromType |-> "component", fromId |-> "cmp-2", toType |-> "vendor",
      toId |-> "ven-a", weight |-> 60, exclusivity |-> "dual"],
     [fromType |-> "component", fromId |-> "cmp-2", toType |-> "vendor",
      toId |-> "ven-x", weight |-> 40, exclusivity |-> "dual"] >>

MetricsOf(id, lead, crit) ==
  [DefaultRec EXCEPT !.id = id, !.lead_time_days = lead,
                     !.criticality_score = crit]

\* metrics for cmp-1, cmp-2 and ven-a; none for the other entities
TreeMetrics ==
  << MetricsOf("cmp-1", 20, 30), MetricsOf("cmp-2", 120, 90),
     MetricsOf("ven-a", 70, 50) >>

TreeSystemLists == { TreeSystems, SubSeq(TreeSystems, 2, 2) }
TreeVendorLists ==
  { RegionalVendors, SubSeq(RegionalVendors, 1, 1), <<>> }

TierChoices == {"All", "Low", "Moderate", "High", "Critical"}
LeadTimeMins == {0, 50, 95}

InitTree ==
  /\ BlankScore
  /\ systems \in TreeSystemLists
  /\ subsystems = TreeSubsystems
  /\ components = TreeComponents
  /\ vendors \in TreeVendorLists
  /\ relationships = TreeRelationships
  /\ regions = <<>>
  /\ metrics = TreeMetrics
  /\ Loaded
  /\ FreshViews
  /\ FirstRender

\* the expand button of a visible row
Toggle ==
  /\ LET rs == rows
         vis == VisibleRowsOf(rs, expanded)
     IN \E i \in DOMAIN vis : expanded' = onExpandClick(rs, expanded, vis[i])
  /\ UNCHANGED <<filters, selected, leadTimeMin>>
  /\ pc' = "toggle"
  /\ UNCHANGED <<scoreData, dataVars, loadVars, regionVars, dashVars>>
  /\ UNCHANGED <<selectionVars, memoVars, paintVars, csvVars>>

\* the risk tier select: updateFilters({ riskTier })
SelectRiskTier ==
  /\ \E t \in TierChoices \ {filters.riskTier} :
       filters' = [filters EXCEPT !.riskTier = t]
  /\ UNCHANGED <<expanded, selected, leadTimeMin>>
  /\ pc' = "updateFilters"
  /\ UNCHANGED <<scoreData, dataVars, loadVars, regionVars, dashVars>>
  /\ UNCHANGED <<selectionVars, memoVars, paintVars, csvVars>>

\* the switch: updateFilters({ showCriticalOnly })
SwitchCriticalOnly ==
  /\ filters' = [filters EXCEPT !.showCriticalOnly = ~filters.showCriticalOnly]
  /\ UNCHANGED <<expanded, selected, leadTimeMin>>
  /\ pc' = "updateFilters"
  /\ UNCHANGED <<scoreData, dataVars, loadVars, regionVars, dashVars>>
  /\ UNCHANGED <<selectionVars, memoVars, paintVars, csvVars>>

\* the lead time input: setLeadTimeMin(parseInt(...))
SetLeadTimeMin ==
  /\ \E v \in LeadTimeMins \ {leadTimeMin} : leadTimeMin' = v
  /\ UNCHANGED <<filters, expanded, selected>>
  /\ pc' = "setLeadTimeMin"
  /\ UNCHANGED <<scoreData, dataVars, loadVars, regionVars, dashVars>>
  /\ UNCHANGED <<selectionVars, memoVars, paintVars, csvVars>>

NextTree == Toggle \/ SelectRiskTier \/ SwitchCriticalOnly \/ SetLeadTimeMin

SpecTree == InitTree /\ [][NextTree]_vars

\* ---- C13
IdsOf(seq) == { seq[i].id : i \in DOMAIN seq }

\* some earlier row is the parent: its id is the parentId and its level is
\* one lower
ParentBefore(rs, i) ==
  \E j \in 1..(i - 1) :
    rs[j].id = rs[i].parentId /\ rs[j].level = rs[i].level - 1

\* C13: in the flattened rows, under every combination of the filters, each
\* row has the level of its type and the parentId of its foreign key (System
\* 0 and null, Subsystem 1 and its systemId, Component 2 and its subsystemId,
\* Vendor 3 and a component id), and the parent of every row with a parent is
\* an earlier row one level lower; a record whose foreign key matches no
\* parent has no row.
C13_RowsAreLevelledTree ==
  LET rs == rows IN
  \A i \in DOMAIN rs :
    LET row == rs[i]
    IN /\ row.type = "System" =>
            row.level = 0 /\ row.parentId = Null
       /\ row.type = "Subsystem" =>
            /\ row.level = 1
            /\ \E k \in DOMAIN subsystems :
                 subsystems[k].id = row.id
                   /\ subsystems[k].systemId = row.parentId
       /\ row.type = "Component" =>
            /\ row.level = 2
            /\ \E k \in DOMAIN components :
                 components[k].id = row.id
                   /\ components[k].subsystemId = row.parentId
       /\ row.type = "Vendor" =>
            row.level = 3 /\ row.parentId \in IdsOf(components)
       /\ row.parentId # Null => ParentBefore(rs, i)
       /\ row.id \notin {"sub-3", "cmp-4"}

\* C13 witness: a filter has dropped a component and its vendor rows while
\* another component keeps its own
C13_Witness ==
  /\ filters.showCriticalOnly
  /\ filters.riskTier = "All"
  /\ leadTimeMin = 50
  /\ "cmp-1" \in IdsOf(components) /\ "cmp-1" \notin IdsOf(rows)
  /\ \E i \in DOMAIN rows : rows[i].type = "Vendor" /\ rows[i].parentId = "cmp-2"
  /\ \A i \in DOMAIN rows : rows[i].parentId # "cmp-1"


\* ---- C14
SystemOfSubsystem(subId) ==
  subsystems[CHOOSE k \in DOMAIN subsystems : subsystems[k].id = subId].systemId

SubsystemOfComponent(compId) ==
  components[CHOOSE k \in DOMAIN components :
               components[k].id = compId].subsystemId

\* the ids of the rows above a row, read off the foreign keys of the records
AncestorsOf(row) ==
  CASE row.type = "System" -> {}
    [] row.type = "Subsystem" -> {row.parentId}
    [] row.type = "Component" ->
         {row.parentId, SystemOfSubsystem(row.parentId)}
    [] row.type = "Vendor" ->
         {row.parentId, SubsystemOfComponent(row.parentId),
          SystemOfSubsystem(SubsystemOfComponent(row.parentId))}

\* C14: after any sequence of toggles a row is in visibleRows exactly when
\* every one of its ancestors is expanded; System rows are always visible,
\* and with nothing expanded exactly the System rows are visible.
C14_VisibleIffAncestorsExpanded ==
  LET rs == rows
      vis == VisibleRowsOf(rs, expanded)
  IN /\ \A i \in DOMAIN rs :
          rs[i].id \in IdsOf(vis)
            <=> AncestorsOf(rs[i]) \subseteq TrueIds(expanded)
     /\ \A i \in DOMAIN rs : rs[i].type = "System" => rs[i] \in Range(vis)
     /\ TrueIds(expanded) = {} =>
          vis = SelectSeq(rs, LAMBDA row : row.type = "System")

\* C14 witness: after toggles, a vendor row shows under three expanded
\* ancestors while a subsystem left expanded under a collapsed system hides
\* its component
C14_Witness ==
  /\ {"sys-compressor", "sub-2", "cmp-2"} \subseteq TrueIds(expanded)
  /\ Flag(expanded, "sub-1") /\ ~Flag(expanded, "sys-inlet")
  /\ "cmp-2-ven-a" \in IdsOf(visibleRows)
  /\ "cmp-1" \in IdsOf(rows) /\ "cmp-1" \notin IdsOf(visibleRows)


\* ---- C15
\* enriched.metricsById.get(id).risk_score for the metrics held, as useData
\* computes it: the normalizer fitted to every lead time of the population
ScoreOfMetrics(m) ==
  computeRiskScore(EntityMetrics(m),
                   createMinMaxNormalizer(
                     [i \in 1..Len(metrics) |->
                        FromInt(metrics[i].lead_time_days)]))

\* the entity a row stands for: a vendor row is named after its component
\* and its vendor
EntityIdOf(row) ==
  IF row.type = "Vendor"
  THEN LET k == CHOOSE k \in DOMAIN vendors :
                  row.id = row.parentId \o "-" \o vendors[k].id
       IN vendors[k].id
  ELSE row.id

\* C15: the risk of every Component row and of every Vendor row is
\* computeRiskScore of the metrics record with the entity's id, under the
\* normalizer fitted to the metrics population (and its tier is riskTier of
\* that score).
C15_RowsCarryScorerOutput ==
  \A i \in DOMAIN rows :
    rows[i].type \in {"Component", "Vendor"} =>
      \A k \in DOMAIN metrics :
        metrics[k].id = EntityIdOf(rows[i]) =>
          FromInt(rows[i].risk) = ScoreOfMetrics(metrics[k])


\* ---- C16
Supplies(venId, compId) ==
  \E k \in DOMAIN relationships :
    /\ relationships[k].fromType = "component"
    /\ relationships[k].fromId = compId
    /\ relationships[k].toType = "vendor"
    /\ relationships[k].toId = venId

\* C16: a Vendor row appears under a Component row exactly when a
\* relationship from that component to that vendor is loaded.
C16_VendorRowsFollowRelationships ==
  \A i \in DOMAIN rows :
    rows[i].type = "Component" =>
      \A k \in DOMAIN vendors :
        (\E j \in DOMAIN rows :
           /\ rows[j].type = "Vendor"
           /\ rows[j].parentId = rows[i].id
           /\ rows[j].id = rows[i].id \o "-" \o vendors[k].id)
        <=> Supplies(vendors[k].id, rows[i].id)


(***************************************************************************)
(* useData: the one-shot load of the fixture documents, and the values the  *)
(* hook derives from its arrays.                                            *)
(***************************************************************************)
FixtureRegions == << [code |-> "US", name |-> "United States"] >>

\* the samples of each document as the server holds them
Fixture ==
  [ systems |-> TreeSystems, subsystems |-> TreeSubsystems,
    components |-> TreeComponents, vendors |-> RegionalVendors,
    relationships |-> TreeRelationships, metrics |-> TreeMetrics,
    regions |-> FixtureRegions ]

\* the array of the hook that a document is stored in
ArrayOf(d) ==
  CASE d = "systems" -> systems
    [] d = "subsystems" -> subsystems
    [] d = "components" -> components
    [] d = "vendors" -> vendors
    [] d = "relationships" -> relationships
    [] d = "metrics" -> metrics
    [] d = "regions" -> regions

InitLoad ==
  /\ BlankScore
  /\ BlankApp

\* one fetch(...).then(r => r.json()) settles: the document parsed, or a
\* rejection (the request or the parse failed)
FetchSettles ==
  /\ \E d \in DocSet :
       /\ fetches[d] = "pending"
       /\ \E outcome \in {"ok", "failed"} :
            fetches' = [fetches EXCEPT ![d] = outcome]
  /\ UNCHANGED <<loading, error, cancelled>>
  /\ pc' = "fetch"
  /\ UNCHANGED <<scoreData, dataVars, treeVars, regionVars, dashVars>>
  /\ UNCHANGED <<selectionVars, memoVars, paintVars, csvVars>>

\* Promise.all has resolved: the setters run unless the effect was cleaned up
LoadResolves ==
  /\ loading
  /\ \A d \in DocSet : fetches[d] = "ok"
  /\ IF cancelled
     THEN UNCHANGED <<dataVars, memoVars>>
     ELSE /\ systems' = Fixture.systems
          /\ subsystems' = Fixture.subsystems
          /\ components' = Fixture.components
          /\ vendors' = Fixture.vendors
          /\ relationships' = Fixture.relationships
          /\ metrics' = Fixture.metrics
          /\ regions' = Fixture.regions
          \* the render the setters cause: the memos see the new metrics
          /\ normalizeMemo' = useMemo(normalizeMemo, <<metrics'>>, metrics')
          /\ enrichedMemo' =
               useMemo(enrichedMemo, <<metrics', normalizeMemo'>>,
                       [metrics |-> metrics',
                        normalizeLeadTime |-> normalizeMemo'])
  /\ loading' = FALSE
  /\ UNCHANGED <<fetches, error, cancelled>>
  /\ pc' = "load.try"
  /\ UNCHANGED <<scoreData, treeVars, regionVars, dashVars>>
  /\ UNCHANGED <<selectionVars, paintVars, csvVars>>

\* faulty variant: the rejection is caught but loading is never cleared
LoadRejects_noFinally ==
  /\ loading
  /\ \E d \in DocSet :
       /\ fetches[d] = "failed"
       /\ error' = "failed to load " \o d
  /\ UNCHANGED <<fetches, loading, cancelled>>
  /\ pc' = "load.catch"
  /\ UNCHANGED <<scoreData, dataVars, treeVars, regionVars, dashVars>>
  /\ UNCHANGED <<selectionVars, memoVars, paintVars, csvVars>>

\* Promise.all has rejected on a failed fetch: catch, then finally
LoadRejects ==
  /\ loading
  /\ \E d \in DocSet :
       /\ fetches[d] = "failed"
       /\ error' = "failed to load " \o d
  /\ loading' = FALSE
  /\ UNCHANGED <<fetches, cancelled>>
  /\ pc' = "load.catch"
  /\ UNCHANGED <<scoreData, dataVars, treeVars, regionVars, dashVars>>
  /\ UNCHANGED <<selectionVars, memoVars, paintVars, csvVars>>

\* the cleanup of the effect
Unmount ==
  /\ ~cancelled
  /\ cancelled' = TRUE
  /\ UNCHANGED <<fetches, loading, error>>
  /\ pc' = "cleanup"
  /\ UNCHANGED <<scoreData, dataVars, treeVars, regionVars, dashVars>>
  /\ UNCHANGED <<selectionVars, memoVars, paintVars, csvVars>>

NextLoad == FetchSettles \/ LoadResolves \/ LoadRejects \/ Unmount

SpecLoad == InitLoad /\ [][NextLoad]_vars

\* ---- C17
\* the load is over, one document failed and the others arrived
OneDocumentFailed(f) ==
  /\ ~loading
  /\ ~cancelled
  /\ fetches[f] = "failed"
  /\ \A d \in DocSet \ {f} : fetches[d] = "ok"

\* C17: when one of the documents fails to load, the load ends with the
\* arrays of the documents that arrived populated and only the array of the
\* failed document empty.
C17_PartialLoadKeepsSubset ==
  \A f \in DocSet :
    OneDocumentFailed(f) =>
      /\ ArrayOf(f) = <<>>
      /\ \A d \in DocSet \ {f} : ArrayOf(d) = Fixture[d]

\* ---- C18
\* C18: with every array empty the derived values exist and are empty: the
\* normalizer of [] is a function (min Infinity, range 1), metricsById has no
\* entry, the BOM row list is empty and the regional rollup is the empty
\* list.
C18_EmptyPopulationGivesEmptyResults ==
  EmptyData =>
    /\ normalizeLeadTimeOf(normalizeMemo.args)
         = [min |-> Infinity(FALSE), range |-> F1]
    /\ metricsById = <<>>
    /\ rows = <<>>
    /\ visibleRows = <<>>
    /\ RollupOf(relationships, vendors) = <<>>

\* C18 witness: the arrays are still empty after a load that failed
C18_Witness ==
  /\ EmptyData
  /\ ~loading
  /\ error # "null"

(***************************************************************************)
(* SupplyChainDashboard: the BOM -> vendor table of the selected system,    *)
(* and NetworkMap: the edges it draws.  Both read the same documents as     *)
(* the hook above; the table is as one render computes it from the state.   *)
(***************************************************************************)
Undefined == "undefined"

getRiskColor(risk, hasCriticalIssue) ==
  IF hasCriticalIssue \/ risk > 90 THEN "#FF0000"
  ELSE IF risk > 75 THEN "#FFFF00"
  ELSE IF risk > 50 THEN "#FF00FF"
  ELSE "#9900FF"

relatedSubsystems ==
  SelectSeq(subsystems, LAMBDA sub : sub.systemId = selectedSystem)

\* faulty variant: a component without metrics borrows the first record
componentMetrics_borrowed(ms, id) ==
  LET hits == { i \in DOMAIN ms : ms[i].id = id }
  IN IF hits = {} THEN (IF ms = <<>> THEN 0 ELSE 1)
     ELSE CHOOSE i \in hits : \A j \in hits : i <= j

\* metrics.find(m => m.id === component.id), as an index, 0 for undefined
componentMetrics(ms, id) ==
  LET hits == { i \in DOMAIN ms : ms[i].id = id }
  IN IF hits = {} THEN 0 ELSE CHOOSE i \in hits : \A j \in hits : i <= j

componentRelationships(component) ==
  SelectSeq(relationships,
            LAMBDA r : /\ r.fromId = component.id
                       /\ r.fromType = "component"
                       /\ r.toType = "vendor")

\* one <tr>: the cells of a relationship of a component.  An optional chain
\* on undefined gives undefined: a comparison with it is false, and the cell
\* that prints it is empty.
TableRow(component, rel, vendorIdx) ==
  LET m == componentMetrics(metrics, component.id)
      vendor == FindVendor(vendors, rel.toId)
      isHighRisk ==
        /\ m # 0
        /\ \/ metrics[m].single_source_flag
           \/ metrics[m].criticality_score > 70
  IN [ key |-> << component.id,
                  IF vendor = 0 THEN Undefined ELSE vendors[vendor].id,
                  vendorIdx >>,
       component |-> component.id,
       name |-> component.name,
       relationship |-> rel,
       vendor |-> IF vendor = 0 THEN <<>> ELSE <<vendors[vendor].name>>,
       origin |-> IF vendor = 0 THEN <<>> ELSE <<vendors[vendor].regionCode>>,
       lead |-> IF m = 0 THEN <<>> ELSE <<metrics[m].lead_time_days>>,
       colour |-> IF m # 0
                  THEN getRiskColor(metrics[m].criticality_score, FALSE)
                  ELSE "#36b691",
       level |-> IF isHighRisk THEN "High"
                 ELSE IF m # 0 /\ metrics[m].criticality_score > 40
                      THEN "Medium"
                      ELSE "Low" ]

TableRowsOfComponent(component) ==
  LET rels == componentRelationships(component)
  IN [ i \in 1..Len(rels) |-> TableRow(component, rels[i], i - 1) ]

TableRowsOfSubsystem(subsystem) ==
  LET subsystemComponents ==
        SelectSeq(components, LAMBDA c : c.subsystemId = subsystem.id)
  IN Concat([ i \in 1..Len(subsystemComponents) |->
                TableRowsOfComponent(subsystemComponents[i]) ])

tableRows ==
  Concat([ i \in 1..Len(relatedSubsystems) |->
             TableRowsOfSubsystem(relatedSubsystems[i]) ])

\* ---- NetworkMap
laneX(type) ==
  CASE type = "system" -> 160
    [] type = "subsystem" -> 420
    [] type = "component" -> 760
    [] type = "vendor" -> 1080

spacing(type) ==
  CASE type = "system" -> 64
    [] type = "subsystem" -> 52
    [] type = "component" -> 44
    [] type = "vendor" -> 44

\* the y of the first node of a lane
laneTop(type) ==
  CASE type = "system" -> 120
    [] type = "subsystem" -> 100
    [] type = "component" -> 80
    [] type = "vendor" -> 80

\* nodesByLevel[type], undefined (no node) for any other type
nodesByLevel(type) ==
  LET src == CASE type = "system" -> systems
               [] type = "subsystem" -> subsystems
               [] type = "component" -> components
               [] type = "vendor" -> vendors
               [] OTHER -> <<>>
  IN [ i \in 1..Len(src) |->
         [ id |-> src[i].id, x |-> laneX(type),
           y |-> laneTop(type) + (i - 1) * spacing(type) ] ]

getPos(type, id) ==
  LET ns == nodesByLevel(type)
      n == FindVendor(ns, id)
  IN IF n # 0 THEN [x |-> ns[n].x, y |-> ns[n].y] ELSE [x |-> 0, y |-> 0]

edgeColor(exclusivity) ==
  IF exclusivity = "single" THEN "#D92D20"
  ELSE IF exclusivity = "dual" THEN "#F79009"
  ELSE "#6366F1"

edges ==
  SelectSeq(relationships,
            LAMBDA e : \/ ~filters.showCriticalOnly
                       \/ FGe(Weight(e), Dec(threshold, 100)))

\* one <line>: its end points, colour and width
EdgeLine(e) ==
  LET from == getPos(e.fromType, e.fromId)
      to == getPos(e.toType, e.toId)
  IN [ relationship |-> e,
       x1 |-> from.x + 18, y1 |-> from.y,
       x2 |-> to.x - 18, y2 |-> to.y,
       stroke |-> edgeColor(e.exclusivity),
       strokeWidth |-> MathMax(F1, FAdd(F1, FMul(Weight(e), FromInt(5)))) ]

edgeLines == [ i \in 1..Len(edges) |-> EdgeLine(edges[i]) ]

\* ---- the populations the table and the map are drawn over
\* cmp-3 sits beside cmp-2 under the rotor
DashComponents ==
  TreeComponents \o
  << [id |-> "cmp-3", subsystemId |-> "sub-2", name |-> "Seal",
      code |-> "SL", critical |-> FALSE] >>

\* on top of the tree's relationships: cmp-3 supplied by ven-b, a hierarchy
\* edge, and an edge from a component that is not loaded
DashRelationships ==
  TreeRelationships \o
  << [fromType |-> "component", fromId |-> "cmp-3", toType |-> "vendor",
      toId |-> "ven-b", weight |-> 15, exclusivity |-> "balanced"],
     [fromType |-> "subsystem", fromId |-> "sub-2", toType |-> "component",
      toId |-> "cmp-2", weight |-> 10, exclusivity |-> "single"],
     [fromType |-> "component", fromId |-> "cmp-9", toType |-> "vendor",
      toId |-> "ven-a", weight |-> 30, exclusivity |-> "balanced"] >>

\* every entity measured as in the tree; only cmp-1 measured; cmp-2 alone,
\* moderately critical; cmp-2 alone, single-sourced; nothing measured
DashMetricLists ==
  { TreeMetrics,
    SubSeq(TreeMetrics, 1, 1),
    << MetricsOf("cmp-2", 45, 60) >>,
    << [MetricsOf("cmp-2", 30, 10) EXCEPT !.single_source_flag = TRUE] >>,
    <<>> }

\* the positions of the strength slider: 0 to 0.6 in steps of 0.05
Thresholds == { 5 * k : k \in 0..12 }

InitDash ==
  /\ BlankScore
  /\ systems \in TreeSystemLists
  /\ subsystems = TreeSubsystems
  /\ components = DashComponents
  /\ vendors \in TreeVendorLists
  /\ relationships = DashRelationships
  /\ regions = <<>>
  /\ metrics \in DashMetricLists
  /\ Loaded
  /\ FreshViews
  /\ FirstRender

\* the system selector: onValueChange={setSelectedSystem}
SelectSystem ==
  /\ \E i \in DOMAIN systems :
       /\ systems[i].id # selectedSystem
       /\ selectedSystem' = systems[i].id
  /\ UNCHANGED threshold
  /\ pc' = "setSelectedSystem"
  /\ UNCHANGED <<scoreData, dataVars, loadVars, treeVars, regionVars>>
  /\ UNCHANGED <<selectionVars, memoVars, paintVars, csvVars>>

\* the strength slider: setThreshold(parseFloat(e.target.value))
SetThreshold ==
  /\ \E t \in Thresholds \ {threshold} : threshold' = t
  /\ UNCHANGED selectedSystem
  /\ pc' = "setThreshold"
  /\ UNCHANGED <<scoreData, dataVars, loadVars, treeVars, regionVars>>
  /\ UNCHANGED <<selectionVars, memoVars, paintVars, csvVars>>

NextDash == SelectSystem \/ SetThreshold \/ SwitchCriticalOnly

SpecDash == InitDash /\ [][NextDash]_vars

HasMetrics(id) == \E i \in DOMAIN metrics : metrics[i].id = id

\* C19: a component that has no metrics record is tolerated by the table:
\* each of its rows shows no lead time, the default colour #36b691 and the
\* risk level "Low", never values taken from another entity's metrics; a
\* component that has a record shows that record's lead time.
C19_MissingMetricsTolerated ==
  \A i \in DOMAIN tableRows :
    LET row == tableRows[i]
    IN IF HasMetrics(row.component)
       THEN \E j \in DOMAIN metrics :
              /\ metrics[j].id = row.component
              /\ row.lead = <<metrics[j].lead_time_days>>
       ELSE /\ row.lead = <<>>
            /\ row.colour = "#36b691"
            /\ row.level = "Low"

\* the table shows cmp-3, which has no record, next to cmp-2, which is
\* rated High from its own record
C19_Witness ==
  /\ \E i \in DOMAIN tableRows :
       /\ tableRows[i].component = "cmp-3"
       /\ ~HasMetrics("cmp-3")
       /\ tableRows[i].level = "Low"
  /\ \E i \in DOMAIN tableRows :
       /\ tableRows[i].component = "cmp-2"
       /\ tableRows[i].level = "High"
       /\ tableRows[i].lead = <<120>>

\* a node of the stated type with the stated id is loaded
NodeLoaded(type, id) == \E i \in DOMAIN nodesByLevel(type) :
                          nodesByLevel(type)[i].id = id

Resolves(r) ==
  NodeLoaded(r.fromType, r.fromId) /\ NodeLoaded(r.toType, r.toId)

\* C20: a relationship one of whose ends matches no loaded node of the
\* stated type is skipped by every consumer: the network map draws no edge
\* for it and the BOM -> vendor table has no row for it.
C20_DanglingRelationshipsSkipped ==
  /\ \A i \in DOMAIN edgeLines : Resolves(edgeLines[i].relationship)
  /\ \A i \in DOMAIN tableRows : Resolves(tableRows[i].relationship)

(***************************************************************************)
(* The derived values of useData against the metrics it holds.              *)
(***************************************************************************)
\* C21: in every state of the hook, before and after its arrays are set,
\* each entry of enriched.metricsById belongs to a record of the metrics
\* held now, carries computeRiskScore of that record under a normalizer
\* fitted to the lead times held now, and riskTier of that score; and no
\* record held now lacks its entry.
C21_DerivedResultsNeverStale ==
  LET byId == metricsById
      fitted == normalizeLeadTimeOf(metrics)
  IN /\ \A i \in DOMAIN byId :
          \E k \in DOMAIN metrics :
            /\ metrics[k].id = byId[i].id
            /\ byId[i].m = metrics[k]
            /\ byId[i].risk_score =
                 computeRiskScore(EntityMetrics(metrics[k]), fitted)
            /\ byId[i].risk_tier = riskTier(byId[i].risk_score)
     /\ \A k \in DOMAIN metrics :
          \E i \in DOMAIN byId : byId[i].id = metrics[k].id

\* C21 witness: the load has set the metrics and the map, computed for the
\* empty population on mount, holds an entry for each of the three records
C21_Witness ==
  /\ pc = "load.try"
  /\ ~cancelled
  /\ Len(metrics) = 3
  /\ Len(metricsById) = 3
  /\ normalizeLeadTimeOf(metrics) # normalizeLeadTimeOf(<<>>)

(***************************************************************************)
(* The mappings from a risk score to a colour: riskColor (risk.ts),         *)
(* QuadrantPlot.colorFor, the risk badge and the tier of BOMTree, and       *)
(* getRiskColor of SupplyChainDashboard, each applied to one score.         *)
(***************************************************************************)
riskColor(score) ==
  LET tier == riskTier(score)
  IN CASE tier = "Low" -> "hsl(var(--risk-low))"
       [] tier = "Moderate" -> "hsl(var(--risk-moderate))"
       [] tier = "High" -> "hsl(var(--risk-high))"
       [] tier = "Critical" -> "hsl(var(--risk-critical))"

colorFor(score) ==
  LET t == riskTier(score)
  IN IF t = "Low" THEN "hsl(var(--risk-low))"
     ELSE IF t = "Moderate" THEN "hsl(var(--risk-moderate))"
     ELSE IF t = "High" THEN "hsl(var(--risk-high))"
     ELSE "hsl(var(--risk-critical))"

\* faulty variant: the badge turns critical at 70, as the Critical label does
badgeColour_seventy(risk) ==
  IF risk >= 70 THEN "hsl(var(--risk-critical))"
  ELSE IF risk >= 60 THEN "hsl(var(--risk-high))"
  ELSE IF risk >= 35 THEN "hsl(var(--risk-moderate))"
  ELSE "hsl(var(--risk-low))"

\* the backgroundColor of the risk badge of a BOMTree row
badgeColour(risk) ==
  IF risk >= 75 THEN "hsl(var(--risk-critical))"
  ELSE IF risk >= 60 THEN "hsl(var(--risk-high))"
  ELSE IF risk >= 35 THEN "hsl(var(--risk-moderate))"
  ELSE "hsl(var(--risk-low))"

InitPaint ==
  /\ rec = DefaultRec
  /\ values = <<>>
  /\ score_arg \in ScoreArgs
  /\ Blank
  /\ BlankApp

\* every mapping applied to the score
Paint ==
  /\ pc = "input"
  /\ colours' = [ riskColor |-> riskColor(FromInt(score_arg)),
                  colorFor |-> colorFor(FromInt(score_arg)),
                  badge |-> badgeColour(score_arg),
                  rowTier |-> rowTier(score_arg),
                  dashboard |-> getRiskColor(score_arg, FALSE),
                  dashboardCritical |-> getRiskColor(score_arg, TRUE) ]
  /\ pc' = "painted"
  /\ UNCHANGED scoreData
  /\ UNCHANGED <<dataVars, loadVars, treeVars, regionVars, dashVars>>
  /\ UNCHANGED <<selectionVars, memoVars, csvVars>>

NextPaint == Paint

SpecPaint == InitPaint /\ [][NextPaint]_vars

\* the colour the style sheet gives a tier
TierColour(t) ==
  CASE t = "Low" -> "hsl(var(--risk-low))"
    [] t = "Moderate" -> "hsl(var(--risk-moderate))"
    [] t = "High" -> "hsl(var(--risk-high))"
    [] t = "Critical" -> "hsl(var(--risk-critical))"

IntegerScore == score_arg \in 0..100

\* C22: on every integer score from 0 to 100, riskColor, colorFor and the
\* badge of the BOM tree give the colour of the tier riskTier returns, and
\* the tier the BOM tree computes for its filter is that tier.
C22_ColoursFollowRiskTier ==
  (pc = "painted" /\ IntegerScore) =>
    LET t == riskTier(FromInt(score_arg))
    IN /\ colours.riskColor = TierColour(t)
       /\ colours.colorFor = TierColour(t)
       /\ colours.badge = TierColour(t)
       /\ colours.rowTier = t

\* C22 witness: a score on the upper edge of a band has been painted
C22_Witness ==
  /\ pc = "painted"
  /\ score_arg \in {34, 59, 74}
  /\ colours.badge = colours.riskColor

\* C23: getRiskColor is a function of the tier of the score: with the same
\* critical flag, an integer score from 0 to 100 gets the colour of the
\* painted score exactly when riskTier puts the two in the same tier.
C23_DashboardColourFollowsTier ==
  (pc = "painted" /\ IntegerScore) =>
    \A s \in 0..100 :
      LET sameTier == riskTier(FromInt(s)) = riskTier(FromInt(score_arg))
      IN /\ sameTier <=> (getRiskColor(s, FALSE) = colours.dashboard)
         /\ sameTier <=> (getRiskColor(s, TRUE) = colours.dashboardCritical)

(***************************************************************************)
(* toCSV (csv.ts).  A text is the sequence of its characters; a record is   *)
(* the sequence of its properties in the order Object.keys lists them; a    *)
(* value is a text, null or undefined.                                      *)
(***************************************************************************)
Text(cs) == [type |-> "string", chars |-> cs]
NullValue == [type |-> "null"]
UndefinedValue == [type |-> "undefined"]
Comma == ","
Quote == "\""
LineFeed == "\n"

ObjectKeys(row) == [i \in 1..Len(row) |-> row[i].k]

HasKey(row, h) == \E i \in DOMAIN row : row[i].k = h

\* row[h]: Undefined when the record has no such property
Property(row, h) ==
  IF HasKey(row, h)
  THEN row[CHOOSE i \in DOMAIN row : row[i].k = h].v
  ELSE UndefinedValue

\* s.replaceAll('"', '""')
RECURSIVE DoubleQuotes(_)
DoubleQuotes(cs) ==
  IF cs = <<>> THEN <<>>
  ELSE (IF Head(cs) = Quote THEN <<Quote, Quote>> ELSE <<Head(cs)>>)
       \o DoubleQuotes(Tail(cs))

Includes(cs, c) == \E i \in DOMAIN cs : cs[i] = c

\* esc: v == null covers null and undefined
esc(v) ==
  IF v.type \in {"null", "undefined"} THEN <<>>
  ELSE LET s == v.chars
       IN IF Includes(s, Comma) \/ Includes(s, Quote) \/ Includes(s, LineFeed)
          THEN <<Quote>> \o DoubleQuotes(s) \o <<Quote>>
          ELSE s

\* parts.join(sep)
RECURSIVE Join(_, _)
Join(parts, sep) ==
  IF parts = <<>> THEN <<>>
  ELSE IF Len(parts) = 1 THEN parts[1]
  ELSE parts[1] \o <<sep>> \o Join(Tail(parts), sep)

toCSV(rs) ==
  IF Len(rs) = 0 THEN <<>>
  ELSE LET headers == ObjectKeys(rs[1])
           lines ==
             << Join(headers, Comma) >> \o
             [ i \in 1..Len(rs) |->
                 Join([ j \in 1..Len(headers) |->
                          esc(Property(rs[i], headers[j])) ], Comma) ]
       IN Join(lines, LineFeed)

\* ---- the record lists toCSV is applied to
MaxCsvRows == 2   \* longest record list drawn

KeyId == <<"i", "d">>
KeyName == <<"n">>
KeyWithComma == <<"a", ",", "b">>

CsvValues ==
  { NullValue, Text(<<"x">>), Text(<<",", "\"">>), Text(<<"\n", "y">>) }

CsvRecords ==
  { << [k |-> KeyId, v |-> a] >> : a \in CsvValues }
  \cup { << [k |-> KeyWithComma, v |-> a] >> : a \in {NullValue, Text(<<"x">>)} }
  \cup { << [k |-> KeyId, v |-> a], [k |-> KeyName, v |-> b] >> :
           a \in CsvValues, b \in {NullValue, Text(<<"x">>)} }
  \cup { << [k |-> KeyName, v |-> b], [k |-> KeyId, v |-> a] >> :
           a \in CsvValues, b \in {NullValue, Text(<<"x">>)} }

InitCsv ==
  /\ BlankScore
  /\ EmptyData /\ FreshLoad /\ FirstRender
  /\ filters = DefaultFilters
  /\ selectedSubsystemId = "null"
  /\ highlightedRegionCode = "null"
  /\ lassoSelectionIds = <<>>
  /\ expanded = EmptyMap
  /\ selected = EmptyMap
  /\ leadTimeMin = 0
  /\ totalsByRegion = <<>>
  /\ diversityIndex = <<>>
  /\ selectedSystem = "sys-compressor"
  /\ threshold = 15
  /\ colours = <<>>
  /\ csvRows \in UNION { [1..n -> CsvRecords] : n \in 0..MaxCsvRows }
  /\ csvText = <<>>

\* an export: toCSV applied to the records
Export ==
  /\ pc = "input"
  /\ csvText' = toCSV(csvRows)
  /\ pc' = "exported"
  /\ UNCHANGED <<scoreData, csvRows>>
  /\ UNCHANGED <<dataVars, loadVars, treeVars, regionVars, dashVars>>
  /\ UNCHANGED <<selectionVars, memoVars, paintVars>>

NextCsv == Export

SpecCsv == InitCsv /\ [][NextCsv]_vars

\* ---- reading a CSV text back: the records and fields a reader finds in it.
\* A field that opens with a quote runs to its closing quote, a doubled quote
\* inside it standing for one; outside quotes a comma ends the field and a
\* line feed ends the record.
RECURSIVE ReadCsv(_, _, _, _, _, _)
ReadCsv(cs, i, records, fields, field, quoted) ==
  IF i > Len(cs)
  THEN Append(records, Append(fields, field))
  ELSE LET c == cs[i]
       IN IF quoted
          THEN IF c = Quote
               THEN IF i < Len(cs) /\ cs[i + 1] = Quote
                    THEN ReadCsv(cs, i + 2, records, fields,
                                 Append(field, Quote), TRUE)
                    ELSE ReadCsv(cs, i + 1, records, fields, field, FALSE)
               ELSE ReadCsv(cs, i + 1, records, fields, Append(field, c), TRUE)
          ELSE IF c = Quote /\ field = <<>>
               THEN ReadCsv(cs, i + 1, records, fields, field, TRUE)
               ELSE IF c = Comma
               THEN ReadCsv(cs, i + 1, records, Append(fields, field),
                            <<>>, FALSE)
               ELSE IF c = LineFeed
               THEN ReadCsv(cs, i + 1, Append(records, Append(fields, field)),
                            <<>>, <<>>, FALSE)
               ELSE ReadCsv(cs, i + 1, records, fields, Append(field, c),
                            FALSE)

CsvRecordsIn(cs) == ReadCsv(cs, 1, <<>>, <<>>, <<>>, FALSE)

\* the text a value shows as: nothing for null and for a missing key
ShownValue(row, h) ==
  LET v == Property(row, h)
  IN IF v.type = "string" THEN v.chars ELSE <<>>

\* C24: toCSV of the empty list is the empty text; of any other list it is
\* one header record listing the keys of the first record in order, then
\* one record per row, each with as many fields as the header: the row's
\* value for each header key, empty when the key is missing or null; a key
\* that only a later row has is not output.
C24_CsvColumnsFixedByFirstRecord ==
  pc = "exported" =>
    IF csvRows = <<>> THEN csvText = <<>>
    ELSE LET read == CsvRecordsIn(csvText)
             headers == ObjectKeys(csvRows[1])
         IN /\ Len(read) = 1 + Len(csvRows)
            /\ read[1] = headers
            /\ \A i \in DOMAIN csvRows :
                 /\ Len(read[i + 1]) = Len(headers)
                 /\ \A j \in DOMAIN headers :
                      read[i + 1][j] = ShownValue(csvRows[i], headers[j])

(***************************************************************************)
(* BOMTree: the selection checkboxes, the expand buttons and the plan       *)
(* button, over one system with its subsystem, component and vendor.        *)
(***************************************************************************)
InitSelect ==
  /\ BlankScore
  /\ systems = SubSeq(TreeSystems, 2, 2)
  /\ subsystems = TreeSubsystems
  /\ components = TreeComponents
  /\ vendors = SubSeq(RegionalVendors, 1, 1)
  /\ relationships = TreeRelationships
  /\ regions = <<>>
  /\ metrics = TreeMetrics
  /\ Loaded
  /\ FreshViews
  /\ FirstRender

\* the checkbox of a visible row: selectOne(row.id, e.target.checked), the
\* box showing checked={!!selected[row.id]} before the click
SelectOne ==
  /\ LET vis == visibleRows
     IN \E i \in DOMAIN vis :
          selected' = selectOne(selected, vis[i].id,
                                ~Flag(selected, vis[i].id))
  /\ UNCHANGED <<filters, expanded, leadTimeMin>>
  /\ pc' = "selectOne"
  /\ UNCHANGED <<scoreData, dataVars, loadVars, regionVars, dashVars>>
  /\ UNCHANGED <<selectionVars, memoVars, paintVars, csvVars>>

\* the select-all checkbox: on is e.target.checked, the opposite of what the
\* box showed
SelectAll ==
  /\ LET on == ~headerChecked
     IN selected' = mergePatch(selected, selectAllPatch(visibleRows, on))
  /\ UNCHANGED <<filters, expanded, leadTimeMin>>
  /\ pc' = "selectAll"
  /\ UNCHANGED <<scoreData, dataVars, loadVars, regionVars, dashVars>>
  /\ UNCHANGED <<selectionVars, memoVars, paintVars, csvVars>>

NextSelect == Toggle \/ SelectOne \/ SelectAll \/ SetLeadTimeMin

SpecSelect == InitSelect /\ [][NextSelect]_vars

\* C25: the count that enables the plan button equals the number of rows
\* handed to the plan dialog, so an enabled button means a non-empty dialog.
C25_PlanButtonCountsDialogRows ==
  LET plan == planRows
  IN /\ selectedCount = Len(plan)
     /\ selectedCount > 0 => Len(plan) > 0

\* ---- C28
\* the original wording of C28: toggling a row with children twice gives
\* back the expanded map itself.
C28_DoubleToggleRestoresMap ==
  LET rs == rows
      vis == VisibleRowsOf(rs, expanded)
  IN \A i \in DOMAIN vis :
       hasChildren(rs, vis[i]) =>
         onExpandClick(rs, onExpandClick(rs, expanded, vis[i]), vis[i])
           = expanded

\* C28: clicking the expand button of a row with children twice restores
\* every row's expanded flag and the visible rows; one click flips the flag
\* of that row and of no other, so the descendants keep theirs; the button of
\* a row without children leaves the map as it is.
C28_ToggleIsInvolutionOnFlags ==
  LET rs == rows
      vis == VisibleRowsOf(rs, expanded)
  IN \A i \in DOMAIN vis :
       LET once == onExpandClick(rs, expanded, vis[i])
           twice == onExpandClick(rs, once, vis[i])
       IN IF hasChildren(rs, vis[i])
          THEN /\ TrueIds(twice) = TrueIds(expanded)
               /\ VisibleRowsOf(rs, twice) = vis
               /\ Flag(once, vis[i].id) = ~Flag(expanded, vis[i].id)
               /\ \A j \in DOMAIN rs :
                    rs[j].id # vis[i].id =>
                      Flag(once, rs[j].id) = Flag(expanded, rs[j].id)
          ELSE once = expanded

\* a toggle has collapsed a row whose child is still expanded
C28_Witness ==
  /\ pc = "toggle"
  /\ LET rs == rows
         vis == VisibleRowsOf(rs, expanded)
     IN \E i \in DOMAIN vis :
          /\ hasChildren(rs, vis[i])
          /\ vis[i].id \in DOMAIN expanded
          /\ ~expanded[vis[i].id]
          /\ \E j \in DOMAIN rs :
               /\ rs[j].parentId = vis[i].id
               /\ Flag(expanded, rs[j].id)

\* ---- C29
RowIds == IdsOf(rows) \cup DOMAIN selected

\* C29: a click on the select-all checkbox gives the selected flag of
\* exactly the visible rows the checkbox value and leaves every other flag
\* as it was, and where rows are visible the header then shows the opposite
\* of what it showed; a click on a row's checkbox flips that row's flag and
\* changes no other.
C29_SelectAllTouchesVisibleRowsOnly ==
  [][ /\ pc' = "selectAll" =>
           LET vis == visibleRows
               visible == IdsOf(vis)
           IN /\ \E on \in BOOLEAN :
                   \A id \in RowIds \cup DOMAIN selected' :
                     Flag(selected', id) =
                       IF id \in visible THEN on ELSE Flag(selected, id)
              /\ UNCHANGED <<filters, expanded, leadTimeMin>>
              /\ visible # {} =>
                   headerCheckedOf(vis, selected')
                     = ~headerCheckedOf(vis, selected)
      /\ pc' = "selectOne" =>
           \E id \in IdsOf(visibleRows) :
             /\ Flag(selected', id) = ~Flag(selected, id)
             /\ \A x \in (RowIds \cup DOMAIN selected') \ {id} :
                  Flag(selected', x) = Flag(selected, x)
    ]_vars

\* select-all was clicked while a selected row was out of view: that row is
\* still selected, and the visible rows are all selected
C29_Witness ==
  /\ pc = "selectAll"
  /\ headerChecked
  /\ \E id \in TrueIds(selected) : id \notin IdsOf(visibleRows)

(***************************************************************************)
(* useData: the load against the cleanup of its effect, and its end.        *)
(***************************************************************************)
\* C26: once the cleanup of the effect has run, the load updates no state
\* any more: no data setter, no setError and no setLoading is called,
\* whether the fetches resolve or reject.
C26_NoUpdateAfterCleanup ==
  [][cancelled => UNCHANGED <<dataVars, loading, error>>]_vars

\* every fetch settles, and the continuation of a settled Promise.all runs
SpecLoadFair ==
  /\ SpecLoad
  /\ WF_vars(FetchSettles)
  /\ WF_vars(LoadResolves)
  /\ WF_vars(LoadRejects)

AllSamplesStored == \A d \in DocSet : ArrayOf(d) = Fixture[d]

\* C27: every load ends: loading becomes false and stays false; and a load
\* that was not cancelled ends either with no error and every array holding
\* the samples of its document, or with an error and every array still
\* empty.
C27_LoadTerminatesAllOrNothing ==
  /\ <>[](~loading)
  /\ [][~loading => ~loading']_vars
  /\ []((~loading /\ ~cancelled) =>
          \/ error = "null" /\ AllSamplesStored
          \/ error # "null" /\ EmptyData)

\* a load that failed although some documents had arrived: nothing is stored
C27_Witness ==
  /\ ~loading
  /\ ~cancelled
  /\ error # "null"
  /\ EmptyData
  /\ \E d \in DocSet : fetches[d] = "ok"

(***************************************************************************)
(* SelectionProvider: the shared selection state and its five updaters.     *)
(***************************************************************************)
\* faulty variant: the patch becomes the filters
updateFilters_replace(f, patch) == patch

\* updateFilters: setFilters((f) => ({ ...f, ...patch }))
updateFilters(f, patch) ==
  [k \in DOMAIN f \cup DOMAIN patch |->
     IF k \in DOMAIN patch THEN patch[k] ELSE f[k]]

\* the values reset() hands to the four setters
reset ==
  [selectedSubsystemId |-> "null",
   highlightedRegionCode |-> "null",
   lassoSelectionIds |-> <<>>,
   filters |-> [showCriticalOnly |-> FALSE, searchQuery |-> "",
                riskTier |-> "All"]]

\* ---- the arguments the updaters are called with
SubsystemIdArgs == {"null", "sub-1", "sub-2"}
RegionCodeArgs == {"null", "US", "CN"}
LassoArgs == { <<>>, <<"cmp-1">>, <<"cmp-2", "ven-a">> }

FilterKeys == {"showCriticalOnly", "searchQuery", "riskTier"}

SearchQueryArgs == {"", "rotor"}
RiskTierArgs == {"All", "Low", "Critical"}

\* Partial<filters>: the keys ks, each with the value of its type
FilterPatch(ks, c, q, t) ==
  [k \in ks |-> CASE k = "showCriticalOnly" -> c
                   [] k = "searchQuery" -> q
                   [] k = "riskTier" -> t]

InitSelection ==
  /\ BlankScore
  /\ BlankApp

SetSelectedSubsystemId ==
  /\ \E id \in SubsystemIdArgs : selectedSubsystemId' = id
  /\ UNCHANGED <<highlightedRegionCode, lassoSelectionIds, treeVars>>
  /\ pc' = "setSelectedSubsystemId"
  /\ UNCHANGED <<scoreData, dataVars, loadVars, regionVars, dashVars>>
  /\ UNCHANGED <<memoVars, paintVars, csvVars>>

SetHighlightedRegionCode ==
  /\ \E code \in RegionCodeArgs : highlightedRegionCode' = code
  /\ UNCHANGED <<selectedSubsystemId, lassoSelectionIds, treeVars>>
  /\ pc' = "setHighlightedRegionCode"
  /\ UNCHANGED <<scoreData, dataVars, loadVars, regionVars, dashVars>>
  /\ UNCHANGED <<memoVars, paintVars, csvVars>>

SetLassoSelectionIds ==
  /\ \E ids \in LassoArgs : lassoSelectionIds' = ids
  /\ UNCHANGED <<selectedSubsystemId, highlightedRegionCode, treeVars>>
  /\ pc' = "setLassoSelectionIds"
  /\ UNCHANGED <<scoreData, dataVars, loadVars, regionVars, dashVars>>
  /\ UNCHANGED <<memoVars, paintVars, csvVars>>

UpdateFilters ==
  /\ \E ks \in SUBSET FilterKeys, c \in BOOLEAN, q \in SearchQueryArgs,
        t \in RiskTierArgs :
       filters' = updateFilters(filters, FilterPatch(ks, c, q, t))
  /\ UNCHANGED <<expanded, selected, leadTimeMin, selectionVars>>
  /\ pc' = "updateFilters"
  /\ UNCHANGED <<scoreData, dataVars, loadVars, regionVars, dashVars>>
  /\ UNCHANGED <<memoVars, paintVars, csvVars>>

Reset ==
  /\ selectedSubsystemId' = reset.selectedSubsystemId
  /\ highlightedRegionCode' = reset.highlightedRegionCode
  /\ lassoSelectionIds' = reset.lassoSelectionIds
  /\ filters' = reset.filters
  /\ UNCHANGED <<expanded, selected, leadTimeMin>>
  /\ pc' = "reset"
  /\ UNCHANGED <<scoreData, dataVars, loadVars, regionVars, dashVars>>
  /\ UNCHANGED <<memoVars, paintVars, csvVars>>

NextSelection ==
  \/ SetSelectedSubsystemId
  \/ SetHighlightedRegionCode
  \/ SetLassoSelectionIds
  \/ UpdateFilters
  \/ Reset

SpecSelection == InitSelection /\ [][NextSelection]_vars

\* C30: after reset() the selection state has its initial value (no
\* subsystem, no region, no lasso ids, filters off, empty and All), whatever
\* the updaters did before; updateFilters(patch) gives the keys of the patch
\* their patch values, keeps every other filter key, and leaves the three
\* other fields alone.
C30_ResetRestoresAndPatchIsLocal ==
  /\ [](\A ks \in SUBSET FilterKeys, c \in BOOLEAN, q \in SearchQueryArgs,
            t \in RiskTierArgs :
          LET patch == FilterPatch(ks, c, q, t)
              after == updateFilters(filters, patch)
          IN /\ DOMAIN after = FilterKeys
             /\ \A k \in FilterKeys :
                  after[k] = IF k \in ks THEN patch[k] ELSE filters[k])
  /\ [][ /\ pc' = "updateFilters" =>
              UNCHANGED <<selectedSubsystemId, highlightedRegionCode,
                          lassoSelectionIds>>
         /\ pc' = "reset" =>
              /\ selectedSubsystemId' = "null"
              /\ highlightedRegionCode' = "null"
              /\ lassoSelectionIds' = <<>>
              /\ filters' = [showCriticalOnly |-> FALSE, searchQuery |-> "",
                             riskTier |-> "All"]
       ]_vars

\* reset has run and the state is the initial one again
C30_Witness ==
  /\ pc = "reset"
  /\ selectedSubsystemId = "null"
  /\ highlightedRegionCode = "null"
  /\ lassoSelectionIds = <<>>
  /\ filters = DefaultFilters

====
